---- MODULE Spec2Model ----
(***************************************************************************)
(* Model of the IPC project: the readers-writers protocol that guards the  *)
(* System V shared segment (SharedMemoryManager) and the coordinator that   *)
(* owns the life cycle of the pipe, socket and shared-memory mechanisms     *)
(* (IPCCoordinator, PipeManager, SocketManager).                            *)
(***************************************************************************)
EXTENDS Integers, Sequences, FiniteSets, TLC

VARIABLES
    \* ---- shared segment and its semaphore set (kernel objects) ----
    sem,              \* values of the three semaphores of the set
    reader_count,     \* SharedMemorySegment::reader_count
    is_writing,       \* SharedMemorySegment::is_writing
    pc,               \* position of every attached process in lockForRead/lockForWrite/unlock
    \* ---- coordinator process ----
    is_running_,      \* IPCCoordinator::is_running_
    manager_,         \* pipe_manager_, socket_manager_, shmem_manager_
    mechanism_status_,
    mechanism_pids_,
    message_counts_,
    mechanism_logs_,
    coord_pc,         \* where the (single) caller of the coordinator is
    last_call,        \* the last coordinator call and what it returned
    \* ---- operating system ----
    procs,            \* responder processes that exist (living, or exited and not reaped)
    next_pid,         \* next process identifier fork() hands out
    open_fds,         \* initiator-side descriptors open in the coordinator process
    kernel_shm,       \* a segment exists for the coordinator's key
    kernel_sem,       \* a semaphore set exists for the coordinator's key
    \* ---- history ----
    logged,           \* per mechanism: activity entries logged so far
    ok_sends,         \* per mechanism: sendMessage calls that returned true
    ever_started,     \* mechanisms whose create routine has succeeded at least once
    \* ---- executeCommand / restartMechanism ----
    cmd,              \* the command or restart the caller is inside of
    response,         \* the last response returned by executeCommand / restartMechanism
    \* ---- concurrent callers (one HTTP client thread per request) ----
    thr,              \* position and locals of every client thread
    \* ---- a channel manager on its own ----
    chan,             \* a PipeManager / SocketManager object
    chan_call,        \* the last call made on it and its outcome
    \* ---- a channel and its responder loop ----
    wire,             \* the message in the kernel buffer the responder has not read yet
    records,          \* what the responder's loop recorded for that message
    \* ---- shared-memory managers of several processes, one key ----
    shm_mgr,          \* the SharedMemoryManager object of every process
    seg_data,         \* SharedMemorySegment::data of the segment of the key
    shm_call,         \* the last call made on a manager and its operation record
    \* ---- the segment's buffer under concurrent writeMessage / readMessage ----
    halves,           \* the two halves of SharedMemorySegment::data: which write each holds
    rw,               \* per process: the writeMessage / readMessage it is inside of
    committed,        \* the last write whose buffer copy is complete
    writes,           \* writeMessage calls made so far (the next write's number)
    \* ---- the lock with bounded waits and SEM_UNDO (the second copy of the manager) ----
    semadj,           \* per process: the kernel's undo adjustment of every semaphore
    ret,              \* per process: its current or last lockForRead / lockForWrite
    lock_calls,       \* lockForRead / lockForWrite calls made so far
    \* ---- an IPCCommand object ----
    ipc_command,      \* its fields, and the last fromJSON call made on it
    \* ---- shutdown() entered from the signal handler ----
    shutdown_entry    \* teardown bodies entered, and the call the handler interrupted

lockVars  == <<sem, reader_count, is_writing, pc>>
coordVars == <<is_running_, manager_, mechanism_status_, mechanism_pids_, message_counts_,
               mechanism_logs_, coord_pc, last_call, procs, next_pid, open_fds, kernel_shm,
               kernel_sem, logged, ok_sends, ever_started>>
cmdVars    == <<cmd, response>>
threadVars == <<thr>>
chanVars   == <<chan, chan_call>>
loopVars   == <<wire, records>>
shmVars    == <<shm_mgr, seg_data, shm_call>>
segVars    == <<halves, rw, committed, writes>>
timedVars  == <<semadj, ret, lock_calls>>
jsonVars   == <<ipc_command>>
signalVars == <<shutdown_entry>>
dataVars   == <<loopVars, shmVars, segVars, timedVars, jsonVars, signalVars>>
\* the coordinator's variables other than the kernel objects of the key
coordOnly  == <<is_running_, manager_, mechanism_status_, mechanism_pids_, message_counts_,
                mechanism_logs_, coord_pc, last_call, procs, next_pid, open_fds, logged,
                ok_sends, ever_started>>
vars == <<sem, reader_count, is_writing, pc, is_running_, manager_, mechanism_status_,
          mechanism_pids_, message_counts_, mechanism_logs_, coord_pc, last_call, procs,
          next_pid, open_fds, kernel_shm, kernel_sem, logged, ok_sends, ever_started,
          cmd, response, thr, chan, chan_call, wire, records,
          shm_mgr, seg_data, shm_call, halves, rw, committed, writes,
          semadj, ret, lock_calls, ipc_command, shutdown_entry>>

-----------------------------------------------------------------------------
(* Bounds of the model *)

\* processes attached to the shared segment
NProcs == 3
\* activity entries logged before the coordinator's callers stop calling
MaxEvents == 4
\* entries logged beyond the log capacity in the log specification
LogOverrun == 3
\* activity entries logged before the callers of executeCommand stop calling
MaxCmdEvents == 3
\* client threads calling the coordinator at the same time
NThreads == 2
\* processes that each own a SharedMemoryManager for the same key
NManagers == 2
\* writeMessage calls made before the writers stop writing
MaxWrites == 2
\* calls made on the managers before their callers stop calling
MaxShmCalls == 5
\* lockForRead / lockForWrite calls made on the lock with bounded waits
MaxLockCalls == 4
\* coordinator calls one client thread makes
MaxThreadCalls == 2

(* Program constants *)

SEM_MUTEX == 0
SEM_READER_MUTEX == 1
SEM_WRITE == 2
SEM_COUNT == 3
\* capacity of one mechanism's activity log
MaxLogEntries == 1000
\* the socket manager's message cap
MAX_MESSAGE_SIZE == 8191
\* the responders' read buffers: char buf[1024] (pipe), char buf[8192] (socket)
PIPE_BUF_SIZE == 1024
SOCKET_BUF_SIZE == 8192
\* SharedMemorySegment: char data[1024]
SHM_DATA_SIZE == 1024

Procs == 1..NProcs
SemIds == 0..(SEM_COUNT - 1)

-----------------------------------------------------------------------------
(* SharedMemoryManager: semaphores and the readers-writers protocol *)

\* createSemaphores: the three semaphores are set to 1
InitSemaphores == [s \in SemIds |-> 1]

\* (mutant) a wait that also passes a semaphore whose value is zero
CanWaitSlack(s) == sem[s] >= 0

\* semop(sem_num, -1) can complete only when the value is positive
CanWait(s) == sem[s] > 0

\* the semaphore set after semop(sem_num, op)
semaphoreOp(s, op) == [sem EXCEPT ![s] = @ + op]

\* ---- lockForWrite ----
LockForWriteCall(p) ==
    /\ pc[p] = "idle"
    /\ pc' = [pc EXCEPT ![p] = "w_wait_write"]
    /\ UNCHANGED <<sem, reader_count, is_writing>>

\* semaphoreWait(SEM_WRITE)
LockForWriteWait(p) ==
    /\ pc[p] = "w_wait_write"
    /\ CanWait(SEM_WRITE)
    /\ sem' = semaphoreOp(SEM_WRITE, -1)
    /\ pc' = [pc EXCEPT ![p] = "w_set_flag"]
    /\ UNCHANGED <<reader_count, is_writing>>

\* shared_segment_->is_writing = true; return true
LockForWriteFlag(p) ==
    /\ pc[p] = "w_set_flag"
    /\ is_writing' = TRUE
    /\ pc' = [pc EXCEPT ![p] = "cs_write"]
    /\ UNCHANGED <<sem, reader_count>>

\* ---- lockForRead ----
LockForReadCall(p) ==
    /\ pc[p] = "idle"
    /\ pc' = [pc EXCEPT ![p] = "r_wait_mutex"]
    /\ UNCHANGED <<sem, reader_count, is_writing>>

\* semaphoreWait(SEM_READER_MUTEX)
LockForReadMutex(p) ==
    /\ pc[p] = "r_wait_mutex"
    /\ CanWait(SEM_READER_MUTEX)
    /\ sem' = semaphoreOp(SEM_READER_MUTEX, -1)
    /\ pc' = [pc EXCEPT ![p] = "r_count"]
    /\ UNCHANGED <<reader_count, is_writing>>

\* (mutant) a reader that arrives takes itself for the first, whatever the count
FirstReaderAlways(n) == TRUE

\* (mutant) no reader takes itself for the first
FirstReaderNever(n) == FALSE

\* if (shared_segment_->reader_count == 1)
FirstReader(n) == n = 1

\* reader_count++; the first reader goes on to wait on SEM_WRITE
LockForReadCount(p) ==
    /\ pc[p] = "r_count"
    /\ reader_count' = reader_count + 1
    /\ pc' = [pc EXCEPT ![p] = IF FirstReader(reader_count + 1) THEN "r_wait_write"
                                                                ELSE "r_signal_mutex"]
    /\ UNCHANGED <<sem, is_writing>>

\* semaphoreWait(SEM_WRITE) of the first reader
LockForReadWrite(p) ==
    /\ pc[p] = "r_wait_write"
    /\ CanWait(SEM_WRITE)
    /\ sem' = semaphoreOp(SEM_WRITE, -1)
    /\ pc' = [pc EXCEPT ![p] = "r_signal_mutex"]
    /\ UNCHANGED <<reader_count, is_writing>>

\* (mutant) lockForRead returns with the reader mutex still taken
LockForReadSignalKeepsMutex(p) ==
    /\ pc[p] = "r_signal_mutex"
    /\ pc' = [pc EXCEPT ![p] = "cs_read"]
    /\ UNCHANGED <<sem, reader_count, is_writing>>

\* semaphoreSignal(SEM_READER_MUTEX); return true
LockForReadSignal(p) ==
    /\ pc[p] = "r_signal_mutex"
    /\ sem' = semaphoreOp(SEM_READER_MUTEX, 1)
    /\ pc' = [pc EXCEPT ![p] = "cs_read"]
    /\ UNCHANGED <<reader_count, is_writing>>

\* ---- unlock ----
\* the branch unlock takes: it looks at the segment, not at what the caller holds
UnlockBranch ==
    IF is_writing THEN "u_clear_flag"
    ELSE IF reader_count > 0 THEN "u_wait_mutex"
    ELSE "idle"

\* unlock() called by a process that holds the lock it took
UnlockCall(p) ==
    /\ pc[p] \in {"cs_read", "cs_write"}
    /\ pc' = [pc EXCEPT ![p] = UnlockBranch]
    /\ UNCHANGED <<sem, reader_count, is_writing>>

\* writer path: shared_segment_->is_writing = false
UnlockClearFlag(p) ==
    /\ pc[p] = "u_clear_flag"
    /\ is_writing' = FALSE
    /\ pc' = [pc EXCEPT ![p] = "u_signal_write_w"]
    /\ UNCHANGED <<sem, reader_count>>

\* writer path: semaphoreSignal(SEM_WRITE); return true
UnlockSignalWriter(p) ==
    /\ pc[p] = "u_signal_write_w"
    /\ sem' = semaphoreOp(SEM_WRITE, 1)
    /\ pc' = [pc EXCEPT ![p] = "idle"]
    /\ UNCHANGED <<reader_count, is_writing>>

\* reader path: semaphoreWait(SEM_READER_MUTEX)
UnlockMutex(p) ==
    /\ pc[p] = "u_wait_mutex"
    /\ CanWait(SEM_READER_MUTEX)
    /\ sem' = semaphoreOp(SEM_READER_MUTEX, -1)
    /\ pc' = [pc EXCEPT ![p] = "u_count"]
    /\ UNCHANGED <<reader_count, is_writing>>

\* (mutant) every reader that unlocks signals SEM_WRITE
AfterDecrementAlways(n) == "u_signal_write_r"

\* (mutant) the last reader that unlocks does not signal SEM_WRITE
AfterDecrementNever(n) == "u_signal_mutex"

\* the position after reader_count-- left n readers: the last reader signals SEM_WRITE
AfterDecrement(n) == IF n = 0 THEN "u_signal_write_r" ELSE "u_signal_mutex"

\* reader path: reader_count--
UnlockCount(p) ==
    /\ pc[p] = "u_count"
    /\ reader_count' = reader_count - 1
    /\ pc' = [pc EXCEPT ![p] = AfterDecrement(reader_count - 1)]
    /\ UNCHANGED <<sem, is_writing>>

\* reader path, last reader: semaphoreSignal(SEM_WRITE)
UnlockSignalLastReader(p) ==
    /\ pc[p] = "u_signal_write_r"
    /\ sem' = semaphoreOp(SEM_WRITE, 1)
    /\ pc' = [pc EXCEPT ![p] = "u_signal_mutex"]
    /\ UNCHANGED <<reader_count, is_writing>>

\* reader path: semaphoreSignal(SEM_READER_MUTEX); return true
UnlockSignalMutex(p) ==
    /\ pc[p] = "u_signal_mutex"
    /\ sem' = semaphoreOp(SEM_READER_MUTEX, 1)
    /\ pc' = [pc EXCEPT ![p] = "idle"]
    /\ UNCHANGED <<reader_count, is_writing>>

LockStep(p) ==
    \/ LockForWriteCall(p) \/ LockForWriteWait(p) \/ LockForWriteFlag(p)
    \/ LockForReadCall(p) \/ LockForReadMutex(p) \/ LockForReadCount(p)
    \/ LockForReadWrite(p) \/ LockForReadSignal(p)
    \/ UnlockCall(p) \/ UnlockClearFlag(p) \/ UnlockSignalWriter(p)
    \/ UnlockMutex(p) \/ UnlockCount(p) \/ UnlockSignalLastReader(p)
    \/ UnlockSignalMutex(p)

\* ---- writeMessage and readMessage around the lock ----
\* The buffer is copied in two halves, so that a copy that overlaps another copy or a
\* read shows.  A write is named by its number; halves holds the number of the write
\* each half comes from (0: the text createSharedMemory put there).

\* the process is inside no writeMessage / readMessage
NoIo == [op |-> "none", msg |-> 0, step |-> "none", got |-> <<0, 0>>, snap |-> 0]

\* writeMessage up to lockForWrite
WriteMessageCall(p) ==
    /\ writes < MaxWrites
    /\ LockForWriteCall(p)
    /\ rw' = [rw EXCEPT ![p] = [NoIo EXCEPT !.op = "write", !.msg = writes + 1,
                                            !.step = "start"]]
    /\ writes' = writes + 1
    /\ UNCHANGED <<halves, committed>>

\* readMessage up to lockForRead
ReadMessageCall(p) ==
    /\ LockForReadCall(p)
    /\ rw' = [rw EXCEPT ![p] = [NoIo EXCEPT !.op = "read", !.step = "start"]]
    /\ UNCHANGED <<halves, committed, writes>>

\* lockForRead returns true: what the last complete write was at that moment
ReadLockAcquired(p) ==
    /\ LockForReadSignal(p)
    /\ rw' = [rw EXCEPT ![p] = [@ EXCEPT !.snap = committed]]
    /\ UNCHANGED <<halves, committed, writes>>

\* the steps of lockForWrite, lockForRead and unlock that touch no buffer
LockInside(p) ==
    /\ \/ LockForWriteWait(p) \/ LockForWriteFlag(p)
       \/ LockForReadMutex(p) \/ LockForReadCount(p) \/ LockForReadWrite(p)
       \/ UnlockClearFlag(p) \/ UnlockSignalWriter(p)
       \/ UnlockMutex(p) \/ UnlockCount(p) \/ UnlockSignalLastReader(p)
       \/ UnlockSignalMutex(p)
    /\ UNCHANGED segVars

\* strncpy into data, first half
WriteCopyFirst(p) ==
    /\ pc[p] = "cs_write"
    /\ rw[p].step = "start"
    /\ halves' = [halves EXCEPT ![1] = rw[p].msg]
    /\ rw' = [rw EXCEPT ![p] = [@ EXCEPT !.step = "half"]]
    /\ UNCHANGED <<committed, writes>>
    /\ UNCHANGED lockVars

\* strncpy into data, second half: the copy is complete
WriteCopySecond(p) ==
    /\ pc[p] = "cs_write"
    /\ rw[p].step = "half"
    /\ halves' = [halves EXCEPT ![2] = rw[p].msg]
    /\ committed' = rw[p].msg
    /\ rw' = [rw EXCEPT ![p] = [@ EXCEPT !.step = "done"]]
    /\ UNCHANGED writes
    /\ UNCHANGED lockVars

\* std::string content(shared_segment_->data), first half
ReadCopyFirst(p) ==
    /\ pc[p] = "cs_read"
    /\ rw[p].step = "start"
    /\ rw' = [rw EXCEPT ![p] = [@ EXCEPT !.step = "half", !.got = <<halves[1], 0>>]]
    /\ UNCHANGED <<halves, committed, writes>>
    /\ UNCHANGED lockVars

\* std::string content(shared_segment_->data), second half
ReadCopySecond(p) ==
    /\ pc[p] = "cs_read"
    /\ rw[p].step = "half"
    /\ rw' = [rw EXCEPT ![p] = [@ EXCEPT !.step = "done", !.got = <<@[1], halves[2]>>]]
    /\ UNCHANGED <<halves, committed, writes>>
    /\ UNCHANGED lockVars

\* unlock() after the copy; the call then returns what it copied
CopyDoneUnlock(p) ==
    /\ rw[p].step = "done"
    /\ UnlockCall(p)
    /\ rw' = [rw EXCEPT ![p] = NoIo]
    /\ UNCHANGED <<halves, committed, writes>>


\* ---- the lock of the second copy of the manager: semtimedop, SEM_UNDO ----
\* Every semop carries SEM_UNDO, so the kernel keeps for every process the adjustment
\* it applies to each semaphore when the process exits.  A wait returns failure when
\* the semaphore stays at zero for the 5 seconds of the timeout.

\* no adjustment recorded
NoAdjust == [s \in SemIds |-> 0]

\* the process has called neither lockForRead nor lockForWrite
NoLockCall == [op |-> "none", res |-> "none", adj0 |-> NoAdjust, cnt |-> 0]

\* semtimedop(semid_, {sem_num, op, SEM_UNDO}, 1, &timeout) that succeeds
TimedSemop(p, s, op) ==
    /\ sem' = semaphoreOp(s, op)
    /\ semadj' = [semadj EXCEPT ![p] = [@ EXCEPT ![s] = @ - op]]

\* the wait on s cannot complete and its timeout runs out
TimesOut(s) == ~CanWait(s)

\* the call returns: res is what it returned
LockReturned(p, res) == ret' = [ret EXCEPT ![p] = [@ EXCEPT !.res = res]]

\* lockForRead / lockForWrite is entered by a process that is inside no call
TimedCall(p, op) ==
    /\ pc[p] = "idle"
    /\ lock_calls < MaxLockCalls
    /\ lock_calls' = lock_calls + 1
    /\ pc' = [pc EXCEPT ![p] = IF op = "lockForWrite" THEN "w_wait_write" ELSE "r_wait_mutex"]
    /\ ret' = [ret EXCEPT ![p] = [op |-> op, res |-> "none", adj0 |-> semadj[p], cnt |-> 0]]
    /\ UNCHANGED <<sem, reader_count, is_writing, semadj>>

\* one step of lockForWrite after its entry; timeout: the step is a wait that times out
TimedLockForWrite(p, timeout) ==
    \* semaphoreWait(SEM_WRITE)
    \/ /\ ~timeout
       /\ pc[p] = "w_wait_write"
       /\ CanWait(SEM_WRITE)
       /\ TimedSemop(p, SEM_WRITE, -1)
       /\ pc' = [pc EXCEPT ![p] = "w_set_flag"]
       /\ UNCHANGED <<reader_count, is_writing, ret, lock_calls>>
    \* semaphoreWait(SEM_WRITE) throws: the catch block returns false
    \/ /\ timeout
       /\ pc[p] = "w_wait_write"
       /\ TimesOut(SEM_WRITE)
       /\ pc' = [pc EXCEPT ![p] = "idle"]
       /\ LockReturned(p, "timeout")
       /\ UNCHANGED <<sem, reader_count, is_writing, semadj, lock_calls>>
    \* shared_segment_->is_writing = true; return true
    \/ /\ ~timeout
       /\ pc[p] = "w_set_flag"
       /\ is_writing' = TRUE
       /\ pc' = [pc EXCEPT ![p] = "cs_write"]
       /\ LockReturned(p, "ok")
       /\ UNCHANGED <<sem, reader_count, semadj, lock_calls>>

\* one step of lockForRead after its entry, its catch block included
TimedLockForRead(p, timeout) ==
    \* semaphoreWait(SEM_READER_MUTEX)
    \/ /\ ~timeout
       /\ pc[p] = "r_wait_mutex"
       /\ CanWait(SEM_READER_MUTEX)
       /\ TimedSemop(p, SEM_READER_MUTEX, -1)
       /\ pc' = [pc EXCEPT ![p] = "r_count"]
       /\ UNCHANGED <<reader_count, is_writing, ret, lock_calls>>
    \* semaphoreWait(SEM_READER_MUTEX) throws: on to the catch block
    \/ /\ timeout
       /\ pc[p] = "r_wait_mutex"
       /\ TimesOut(SEM_READER_MUTEX)
       /\ pc' = [pc EXCEPT ![p] = "rc_wait_mutex"]
       /\ UNCHANGED <<sem, reader_count, is_writing, semadj, ret, lock_calls>>
    \* reader_count++; the first reader goes on to wait on SEM_WRITE
    \/ /\ ~timeout
       /\ pc[p] = "r_count"
       /\ reader_count' = reader_count + 1
       /\ ret' = [ret EXCEPT ![p] = [@ EXCEPT !.cnt = @ + 1]]
       /\ pc' = [pc EXCEPT ![p] = IF FirstReader(reader_count + 1) THEN "r_wait_write"
                                                                   ELSE "r_signal_mutex"]
       /\ UNCHANGED <<sem, is_writing, semadj, lock_calls>>
    \* semaphoreWait(SEM_WRITE) of the first reader
    \/ /\ ~timeout
       /\ pc[p] = "r_wait_write"
       /\ CanWait(SEM_WRITE)
       /\ TimedSemop(p, SEM_WRITE, -1)
       /\ pc' = [pc EXCEPT ![p] = "r_signal_mutex"]
       /\ UNCHANGED <<reader_count, is_writing, ret, lock_calls>>
    \* semaphoreWait(SEM_WRITE) of the first reader throws: on to the catch block, with
    \* the reader mutex taken and reader_count incremented
    \/ /\ timeout
       /\ pc[p] = "r_wait_write"
       /\ TimesOut(SEM_WRITE)
       /\ pc' = [pc EXCEPT ![p] = "rc_wait_mutex"]
       /\ UNCHANGED <<sem, reader_count, is_writing, semadj, ret, lock_calls>>
    \* semaphoreSignal(SEM_READER_MUTEX); return true
    \/ /\ ~timeout
       /\ pc[p] = "r_signal_mutex"
       /\ TimedSemop(p, SEM_READER_MUTEX, 1)
       /\ pc' = [pc EXCEPT ![p] = "cs_read"]
       /\ LockReturned(p, "ok")
       /\ UNCHANGED <<reader_count, is_writing, lock_calls>>
    \* catch block: semaphoreWait(SEM_READER_MUTEX)
    \/ /\ ~timeout
       /\ pc[p] = "rc_wait_mutex"
       /\ CanWait(SEM_READER_MUTEX)
       /\ TimedSemop(p, SEM_READER_MUTEX, -1)
       /\ pc' = [pc EXCEPT ![p] = "rc_count"]
       /\ UNCHANGED <<reader_count, is_writing, ret, lock_calls>>
    \* catch block: its own wait throws; catch (...) logs; return false
    \/ /\ timeout
       /\ pc[p] = "rc_wait_mutex"
       /\ TimesOut(SEM_READER_MUTEX)
       /\ pc' = [pc EXCEPT ![p] = "idle"]
       /\ LockReturned(p, "timeout")
       /\ UNCHANGED <<sem, reader_count, is_writing, semadj, lock_calls>>
    \* catch block: if (reader_count > 0) reader_count--
    \/ /\ ~timeout
       /\ pc[p] = "rc_count"
       /\ reader_count' = IF reader_count > 0 THEN reader_count - 1 ELSE reader_count
       /\ ret' = [ret EXCEPT ![p] = [@ EXCEPT !.cnt = IF reader_count > 0 THEN @ - 1 ELSE @]]
       /\ pc' = [pc EXCEPT ![p] = "rc_signal_mutex"]
       /\ UNCHANGED <<sem, is_writing, semadj, lock_calls>>
    \* catch block: semaphoreSignal(SEM_READER_MUTEX); return false
    \/ /\ ~timeout
       /\ pc[p] = "rc_signal_mutex"
       /\ TimedSemop(p, SEM_READER_MUTEX, 1)
       /\ pc' = [pc EXCEPT ![p] = "idle"]
       /\ LockReturned(p, "timeout")
       /\ UNCHANGED <<reader_count, is_writing, lock_calls>>

\* unlock() called by a process that holds the lock it took: the branch depends on
\* is_writing alone
TimedUnlockCall(p) ==
    /\ pc[p] \in {"cs_read", "cs_write"}
    /\ pc' = [pc EXCEPT ![p] = IF is_writing THEN "u_clear_flag" ELSE "u_wait_mutex"]
    /\ UNCHANGED <<sem, reader_count, is_writing, timedVars>>

\* one step of unlock after its entry
TimedUnlock(p, timeout) ==
    \* writer path: shared_segment_->is_writing = false
    \/ /\ ~timeout
       /\ pc[p] = "u_clear_flag"
       /\ is_writing' = FALSE
       /\ pc' = [pc EXCEPT ![p] = "u_signal_write_w"]
       /\ UNCHANGED <<sem, reader_count, timedVars>>
    \* writer path: semaphoreSignal(SEM_WRITE); return true
    \/ /\ ~timeout
       /\ pc[p] = "u_signal_write_w"
       /\ TimedSemop(p, SEM_WRITE, 1)
       /\ pc' = [pc EXCEPT ![p] = "idle"]
       /\ UNCHANGED <<reader_count, is_writing, ret, lock_calls>>
    \* reader path: semaphoreWait(SEM_READER_MUTEX)
    \/ /\ ~timeout
       /\ pc[p] = "u_wait_mutex"
       /\ CanWait(SEM_READER_MUTEX)
       /\ TimedSemop(p, SEM_READER_MUTEX, -1)
       /\ pc' = [pc EXCEPT ![p] = "u_count"]
       /\ UNCHANGED <<reader_count, is_writing, ret, lock_calls>>
    \* reader path: the wait throws; unlock returns false and the caller goes on
    \/ /\ timeout
       /\ pc[p] = "u_wait_mutex"
       /\ TimesOut(SEM_READER_MUTEX)
       /\ pc' = [pc EXCEPT ![p] = "idle"]
       /\ UNCHANGED <<sem, reader_count, is_writing, timedVars>>
    \* reader path: if (reader_count > 0) { reader_count--; the last reader signals
    \* SEM_WRITE }
    \/ /\ ~timeout
       /\ pc[p] = "u_count"
       /\ reader_count' = IF reader_count > 0 THEN reader_count - 1 ELSE reader_count
       /\ pc' = [pc EXCEPT ![p] = IF reader_count > 0 THEN AfterDecrement(reader_count - 1)
                                                      ELSE "u_signal_mutex"]
       /\ UNCHANGED <<sem, is_writing, timedVars>>
    \* reader path, last reader: semaphoreSignal(SEM_WRITE)
    \/ /\ ~timeout
       /\ pc[p] = "u_signal_write_r"
       /\ TimedSemop(p, SEM_WRITE, 1)
       /\ pc' = [pc EXCEPT ![p] = "u_signal_mutex"]
       /\ UNCHANGED <<reader_count, is_writing, ret, lock_calls>>
    \* reader path: semaphoreSignal(SEM_READER_MUTEX); return true
    \/ /\ ~timeout
       /\ pc[p] = "u_signal_mutex"
       /\ TimedSemop(p, SEM_READER_MUTEX, 1)
       /\ pc' = [pc EXCEPT ![p] = "idle"]
       /\ UNCHANGED <<reader_count, is_writing, ret, lock_calls>>

\* a wait of lockForRead / lockForWrite / unlock that succeeds, or a step between waits
TimedGoesOn(p) ==
    TimedLockForWrite(p, FALSE) \/ TimedLockForRead(p, FALSE) \/ TimedUnlock(p, FALSE)

\* ---- abnormal exit ----
\* what the process holds: a position between taking something and giving it back
Holding(p) ==
    pc[p] \in {"w_set_flag", "cs_write", "u_clear_flag", "u_signal_write_w",
               "r_count", "r_wait_write", "r_signal_mutex", "cs_read",
               "u_wait_mutex", "u_count", "u_signal_write_r", "u_signal_mutex",
               "rc_count", "rc_signal_mutex"}

\* the value the kernel leaves in a semaphore when it applies an adjustment at exit
Adjusted(v, adj) == IF v + adj < 0 THEN 0 ELSE v + adj

\* the process exits abnormally while it holds something: the kernel applies its
\* adjustments (SEM_UNDO); the segment's reader_count and is_writing stay as they are
CrashUndo(p) ==
    /\ Holding(p)
    /\ pc' = [pc EXCEPT ![p] = "dead"]
    /\ sem' = [s \in SemIds |-> Adjusted(sem[s], semadj[p][s])]
    /\ semadj' = [semadj EXCEPT ![p] = NoAdjust]
    /\ UNCHANGED <<reader_count, is_writing, ret, lock_calls>>

\* the same exit under the first copy of the manager, whose semop carries no SEM_UNDO
CrashPlain(p) ==
    /\ Holding(p)
    /\ pc' = [pc EXCEPT ![p] = "dead"]
    /\ UNCHANGED <<sem, reader_count, is_writing>>

-----------------------------------------------------------------------------
(* Coordinator: data *)

Mechanisms == {"pipes", "sockets", "shared_memory"}
Channels == {"pipes", "sockets"}
Msgs == {"hello"}

\* PipeManager::PipeManager / SocketManager::SocketManager: no descriptors, no child.
\* fd_w is pipe_fd_[1] / socket_fd_[1]: -1, the channel it refers to, or 0 for the
\* number of a descriptor that has been closed
FreshChannel == [present |-> TRUE, is_active_ |-> FALSE, fd_w |-> -1, child_pid_ |-> -1]

\* SharedMemoryManager::SharedMemoryManager
FreshShm == [present |-> TRUE, is_attached_ |-> FALSE, shared_segment_ |-> FALSE,
             shmid_ |-> -1, semid_ |-> -1, is_creator_ |-> FALSE]

FreshManager(m) == IF m = "shared_memory" THEN FreshShm ELSE FreshChannel

\* a unique_ptr that holds no manager
NullManager(m) == [FreshManager(m) EXCEPT !.present = FALSE]

\* PipeManager::isActive, SocketManager::isActive, SharedMemoryManager::isActive
isActive(mgr, m) ==
    IF m = "shared_memory" THEN mgr.is_attached_ /\ mgr.shared_segment_
                           ELSE mgr.is_active_

\* the guard `manager && manager->isActive()` of the coordinator
ManagerActive(m) == manager_[m].present /\ isActive(manager_[m], m)

\* isProcessAlive: kill(pid, 0) succeeds for every process that exists, exited and not yet
\* reaped included
isProcessAlive(pid) == pid > 0 /\ pid \in DOMAIN procs

TotalLogged == logged["pipes"] + logged["sockets"] + logged["shared_memory"]

Idle == [op |-> "idle", mech |-> "none", stage |-> 0]

NoCall == [op |-> "none", mech |-> "none", result |-> FALSE, created |-> FALSE,
           signalled |-> FALSE, wrote |-> FALSE, tick |-> 0]

\* the record of a call that has just returned
Call(op, m, result, created, signalled, wrote) ==
    [op |-> op, mech |-> m, result |-> result, created |-> created,
     signalled |-> signalled, wrote |-> wrote, tick |-> 1 - last_call.tick]

\* getMechanismStatus
getMechanismStatus(m) ==
    [name |-> m,
     is_active |-> mechanism_status_[m],
     process_pid |-> IF m \in DOMAIN mechanism_pids_ THEN mechanism_pids_[m] ELSE 0,
     is_running |-> IF m \in DOMAIN mechanism_pids_
                    THEN isProcessAlive(mechanism_pids_[m]) ELSE FALSE,
     messages_sent |-> message_counts_[m],
     messages_received |-> 0]

\* getFullStatus
getFullStatus ==
    [mechanisms |-> [m \in Mechanisms |-> getMechanismStatus(m)],
     all_active |-> \A m \in Mechanisms : mechanism_status_[m],
     total_processes |-> Cardinality(DOMAIN mechanism_pids_),
     status |-> IF is_running_ THEN "running" ELSE "stopped"]

-----------------------------------------------------------------------------
(* Coordinator: activity log *)

\* (mutant) a full log drops the entry that was just appended
TrimLogNewest(log) ==
    IF Len(log) > MaxLogEntries THEN SubSeq(log, 1, MaxLogEntries) ELSE log

\* a log that grew beyond its capacity loses its oldest entry
TrimLog(log) == IF Len(log) > MaxLogEntries THEN Tail(log) ELSE log

\* logMechanismActivity: the logs after one more entry for mechanism m
logMechanismActivity(m, activity, msg) ==
    [mechanism_logs_ EXCEPT ![m] =
        TrimLog(Append(@, [n |-> logged[m] + 1, activity |-> activity, msg |-> msg]))]

\* getLogs: the last `count` entries (all of them when there are fewer)
getLogs(m, count) ==
    LET logs == mechanism_logs_[m]
        start == IF Len(logs) > count THEN Len(logs) - count ELSE 0
    IN  SubSeq(logs, start + 1, Len(logs))

-----------------------------------------------------------------------------
(* Responder processes *)

\* the read loop of responder c sees end-of-stream once no process holds the other end
\* of its channel any more: neither the coordinator nor a responder that inherited it
EndOfStream(c) ==
    /\ c \notin open_fds
    /\ \A h \in DOMAIN procs : procs[h].alive => c \notin procs[h].holds

\* runChildLoop: read returns 0, the loop ends and the responder exits
ChildExit(c) ==
    /\ procs[c].alive
    /\ EndOfStream(c)
    /\ procs' = [procs EXCEPT ![c] = [@ EXCEPT !.alive = FALSE, !.holds = {}]]
    /\ UNCHANGED <<is_running_, manager_, mechanism_status_, mechanism_pids_,
                   message_counts_, mechanism_logs_, coord_pc, last_call, next_pid,
                   open_fds, kernel_shm, kernel_sem, logged, ok_sends, ever_started>>
    /\ UNCHANGED lockVars

\* the process table after a termination signal was delivered to pid
Killed(table, pid) ==
    IF pid \in DOMAIN table
    THEN [table EXCEPT ![pid] = [@ EXCEPT !.alive = FALSE, !.holds = {}]]
    ELSE table

\* the process table after waitpid collected pid
Reaped(table, pid) == [x \in DOMAIN table \ {pid} |-> table[x]]

-----------------------------------------------------------------------------
(* Create routines *)

\* what the kernel may answer to createPipe / createSocket
ChannelOutcomes == {"ok", "create", "fork"}
\* what the kernel may answer to createSharedMemory
ShmOutcomes == {"ok", "shmget", "shmat", "semget"}
Outcomes(m) == IF m = "shared_memory" THEN ShmOutcomes ELSE ChannelOutcomes

\* the descriptors a process forked now for mechanism m holds besides its own read end:
\* every initiator-side descriptor open in the coordinator (its copy of the new
\* channel's initiator end is the only one it closes)
Inherited == open_fds

\* PipeManager::createPipe / SocketManager::createSocket in the initiator image.
\* f = "create": pipe()/socketpair() failed; f = "fork": fork() failed and both new
\* descriptors were closed, their numbers staying in the manager
createChannel(mgr, f) ==
    CASE f = "create" -> [ok |-> FALSE, mgr |-> mgr, child |-> 0]
      [] f = "fork"   -> [ok |-> FALSE, child |-> 0,
                          mgr |-> [mgr EXCEPT !.fd_w = 0, !.child_pid_ = -1]]
      [] OTHER        -> [ok |-> TRUE, child |-> next_pid,
                          mgr |-> [mgr EXCEPT !.is_active_ = TRUE, !.fd_w = next_pid,
                                              !.child_pid_ = next_pid]]

\* SharedMemoryManager::createSharedMemory with createSemaphores and attachToMemory.
\* shmget and semget are exclusive creations: they also fail when the object exists
createSharedMemory(mgr, f) ==
    IF kernel_shm \/ f = "shmget"
    THEN [ok |-> FALSE, mgr |-> [mgr EXCEPT !.shmid_ = -1],
          shm |-> kernel_shm, semset |-> kernel_sem]
    ELSE IF f = "shmat"
    THEN [ok |-> FALSE, shm |-> TRUE, semset |-> kernel_sem,
          mgr |-> [mgr EXCEPT !.shmid_ = 1, !.is_creator_ = TRUE,
                              !.shared_segment_ = FALSE]]
    ELSE IF kernel_sem \/ f = "semget"
    THEN [ok |-> FALSE, shm |-> TRUE, semset |-> kernel_sem,
          mgr |-> [mgr EXCEPT !.shmid_ = 1, !.is_creator_ = TRUE,
                              !.shared_segment_ = TRUE, !.is_attached_ = TRUE,
                              !.semid_ = -1]]
    ELSE [ok |-> TRUE, shm |-> TRUE, semset |-> TRUE,
          mgr |-> [mgr EXCEPT !.shmid_ = 1, !.is_creator_ = TRUE,
                              !.shared_segment_ = TRUE, !.is_attached_ = TRUE,
                              !.semid_ = 1]]

-----------------------------------------------------------------------------
(* IPCCoordinator::initialize *)

\* callers initialize a coordinator that is not running (main, the tests' SetUp)
Initialize ==
    /\ coord_pc.op = "idle"
    /\ ~is_running_
    /\ manager_' = [m \in Mechanisms |-> FreshManager(m)]
    /\ is_running_' = TRUE
    /\ last_call' = Call("initialize", "none", TRUE, FALSE, FALSE, FALSE)
    /\ UNCHANGED <<mechanism_status_, mechanism_pids_, message_counts_, mechanism_logs_,
                   coord_pc, procs, next_pid, open_fds, kernel_shm, kernel_sem, logged,
                   ok_sends, ever_started>>
    /\ UNCHANGED lockVars

-----------------------------------------------------------------------------
(* IPCCoordinator::startMechanism *)

\* (mutant) no duplicate-start guard: every start runs the create routine
AlreadyActiveNever(m) == FALSE

\* the duplicate-start guard: the mechanism's flag is already set
AlreadyActive(m) == mechanism_status_[m]

\* (mutant) the flag is set whatever the create routine returned
StatusAfterStartAlways(m, success) == [mechanism_status_ EXCEPT ![m] = TRUE]

\* the flags after the create routine returned `success`
StatusAfterStart(m, success) ==
    IF success THEN [mechanism_status_ EXCEPT ![m] = TRUE] ELSE mechanism_status_

\* start of a channel mechanism (initializePipes / initializeSockets)
StartChannel(m, f) ==
    LET r == createChannel(manager_[m], f) IN
    /\ manager_' = [manager_ EXCEPT ![m] = r.mgr]
    /\ procs' = IF r.ok
                THEN [x \in DOMAIN procs \cup {r.child} |->
                        IF x = r.child
                        THEN [mech |-> m, alive |-> TRUE, holds |-> Inherited]
                        ELSE procs[x]]
                ELSE procs
    /\ next_pid' = IF r.ok THEN next_pid + 1 ELSE next_pid
    /\ open_fds' = IF r.ok THEN open_fds \cup {r.child} ELSE open_fds
    /\ mechanism_status_' = StatusAfterStart(m, r.ok)
    /\ mechanism_logs_' = IF r.ok THEN logMechanismActivity(m, "started", "")
                                  ELSE mechanism_logs_
    /\ logged' = IF r.ok THEN [logged EXCEPT ![m] = @ + 1] ELSE logged
    /\ ever_started' = IF r.ok THEN ever_started \cup {m} ELSE ever_started
    /\ last_call' = Call("start", m, r.ok, TRUE, FALSE, FALSE)
    /\ UNCHANGED <<kernel_shm, kernel_sem, sem, reader_count, is_writing>>

\* start of the shared-memory mechanism (initializeSharedMemory); a created segment is
\* zeroed and its semaphores are set to 1
StartSharedMemory(m, f) ==
    LET r == createSharedMemory(manager_[m], f) IN
    /\ manager_' = [manager_ EXCEPT ![m] = r.mgr]
    /\ kernel_shm' = r.shm
    /\ kernel_sem' = r.semset
    /\ sem' = IF r.ok THEN InitSemaphores ELSE sem
    /\ reader_count' = IF r.ok THEN 0 ELSE reader_count
    /\ is_writing' = IF r.ok THEN FALSE ELSE is_writing
    /\ mechanism_status_' = StatusAfterStart(m, r.ok)
    /\ mechanism_logs_' = IF r.ok THEN logMechanismActivity(m, "started", "")
                                  ELSE mechanism_logs_
    /\ logged' = IF r.ok THEN [logged EXCEPT ![m] = @ + 1] ELSE logged
    /\ ever_started' = IF r.ok THEN ever_started \cup {m} ELSE ever_started
    /\ last_call' = Call("start", m, r.ok, TRUE, FALSE, FALSE)
    /\ UNCHANGED <<procs, next_pid, open_fds>>

startMechanism(m, f) ==
    /\ coord_pc.op = "idle"
    /\ IF AlreadyActive(m)
       THEN \* already active: the duplicate start is ignored
            /\ last_call' = Call("start", m, TRUE, FALSE, FALSE, FALSE)
            /\ UNCHANGED <<manager_, procs, next_pid, open_fds, kernel_shm, kernel_sem,
                           mechanism_status_, mechanism_logs_, logged, ever_started,
                           sem, reader_count, is_writing>>
       ELSE IF ~manager_[m].present
       THEN \* initializeX: no manager
            /\ last_call' = Call("start", m, FALSE, FALSE, FALSE, FALSE)
            /\ mechanism_status_' = StatusAfterStart(m, FALSE)
            /\ UNCHANGED <<manager_, procs, next_pid, open_fds, kernel_shm, kernel_sem,
                           mechanism_logs_, logged, ever_started,
                           sem, reader_count, is_writing>>
       ELSE IF m = "shared_memory"
       THEN StartSharedMemory(m, f)
       ELSE StartChannel(m, f)
    /\ UNCHANGED <<is_running_, mechanism_pids_, message_counts_, coord_pc, ok_sends, pc>>

-----------------------------------------------------------------------------
(* IPCCoordinator::sendMessage *)

\* PipeManager::sendMessage / SocketManager::sendMessage get as far as write()
ChannelCanWrite(mgr) == mgr.is_active_ /\ mgr.fd_w # -1

\* SharedMemoryManager::writeMessage gets as far as the buffer copy: attached, and
\* lockForWrite has a semaphore set whose write semaphore can be taken
ShmCanWrite(mgr) ==
    mgr.is_attached_ /\ mgr.shared_segment_ /\ mgr.semid_ # -1 /\ CanWait(SEM_WRITE)

\* (mutant) the counter counts attempts, not successes
CountAfterSendAlways(m, success) == [message_counts_ EXCEPT ![m] = @ + 1]

\* (mutant) a successful send is counted for the default mechanism
CountAfterSendDefaultKey(m, success) ==
    IF success THEN [message_counts_ EXCEPT !["pipes"] = @ + 1] ELSE message_counts_

\* the counter after a send that returned `success`
CountAfterSend(m, success) ==
    IF success THEN [message_counts_ EXCEPT ![m] = @ + 1] ELSE message_counts_

\* io: whether the write()/semop() system calls of the manager succeed
sendMessage(m, msg, io) ==
    LET attempted == /\ mechanism_status_[m]
                     /\ ManagerActive(m)
                     /\ IF m = "shared_memory" THEN ShmCanWrite(manager_[m])
                                               ELSE ChannelCanWrite(manager_[m])
        success == attempted /\ io
    IN
    /\ coord_pc.op = "idle"
    /\ message_counts_' = CountAfterSend(m, success)
    /\ mechanism_logs_' = IF success THEN logMechanismActivity(m, "message_sent", msg)
                                     ELSE mechanism_logs_
    /\ logged' = IF success THEN [logged EXCEPT ![m] = @ + 1] ELSE logged
    /\ ok_sends' = IF success THEN [ok_sends EXCEPT ![m] = @ + 1] ELSE ok_sends
    /\ last_call' = Call("send", m, success, FALSE, FALSE,
                        attempted /\ (m \in Channels \/ io))
    /\ UNCHANGED <<is_running_, manager_, mechanism_status_, mechanism_pids_, coord_pc,
                   procs, next_pid, open_fds, kernel_shm, kernel_sem, ever_started>>
    /\ UNCHANGED lockVars

-----------------------------------------------------------------------------
(* IPCCoordinator::stopMechanism *)

\* (mutant) stopMechanism leaves the mechanism's flag as it is
StopStatusKept(m) == mechanism_status_

\* the flags once stopMechanism has cleared the mechanism's flag
StopStatus(m) == [mechanism_status_ EXCEPT ![m] = FALSE]

\* SharedMemoryManager::destroySharedMemory with cleanup
destroySharedMemory(mgr) ==
    LET removes == mgr.is_creator_ /\ mgr.shmid_ # -1 IN
    [mgr |-> [mgr EXCEPT !.shared_segment_ = FALSE, !.is_attached_ = FALSE,
                         !.shmid_ = -1, !.semid_ = -1],
     shm |-> IF removes THEN FALSE ELSE kernel_shm,
     semset |-> IF removes /\ mgr.semid_ # -1 THEN FALSE ELSE kernel_sem]

\* the responder registered for m gets SIGTERM (and SIGKILL after the grace period)
Signals(m) == m \in DOMAIN mechanism_pids_ /\ isProcessAlive(mechanism_pids_[m])

\* the rest of stopMechanism once the manager has closed: the registered responder is
\* signalled and forgotten, "stopped" is logged and the call returns true.
\* table: the process table at this point; stage: 0, or the stage of shutdown()
StopTail(m, stage, table) ==
    /\ procs' = IF Signals(m) THEN Killed(table, mechanism_pids_[m]) ELSE table
    /\ mechanism_pids_' = [x \in DOMAIN mechanism_pids_ \ {m} |-> mechanism_pids_[x]]
    /\ mechanism_logs_' = logMechanismActivity(m, "stopped", "")
    /\ logged' = [logged EXCEPT ![m] = @ + 1]
    /\ last_call' = Call("stop", m, TRUE, FALSE, Signals(m), FALSE)
    /\ coord_pc' = IF stage = 0 THEN Idle
                   ELSE [op |-> "shutdown", mech |-> "none", stage |-> stage + 1]

\* stopMechanism from its entry to its first blocking point (or to its return):
\* closePipe / closeSocket close the initiator's descriptor and then wait for the
\* responder with waitpid(child_pid_, &status, 0)
StopBody(m, stage) ==
    LET mgr == manager_[m] IN
    /\ mechanism_status_' = StopStatus(m)
    /\ IF ManagerActive(m) /\ m \in Channels /\ mgr.child_pid_ > 0
       THEN /\ open_fds' = open_fds \ {mgr.fd_w}
            /\ manager_' = [manager_ EXCEPT ![m] = [mgr EXCEPT !.fd_w = -1]]
            /\ coord_pc' = [op |-> "stop_wait", mech |-> m, stage |-> stage]
            /\ UNCHANGED <<procs, mechanism_pids_, mechanism_logs_, logged, last_call,
                           kernel_shm, kernel_sem>>
       ELSE IF ManagerActive(m) /\ m \in Channels
       THEN /\ open_fds' = open_fds \ {mgr.fd_w}
            /\ manager_' = [manager_ EXCEPT ![m] =
                               [mgr EXCEPT !.fd_w = -1, !.is_active_ = FALSE]]
            /\ StopTail(m, stage, procs)
            /\ UNCHANGED <<kernel_shm, kernel_sem>>
       ELSE IF ManagerActive(m)
       THEN LET d == destroySharedMemory(mgr) IN
            /\ manager_' = [manager_ EXCEPT ![m] = d.mgr]
            /\ kernel_shm' = d.shm
            /\ kernel_sem' = d.semset
            /\ StopTail(m, stage, procs)
            /\ UNCHANGED open_fds
       ELSE /\ StopTail(m, stage, procs)
            /\ UNCHANGED <<manager_, open_fds, kernel_shm, kernel_sem>>
    /\ UNCHANGED <<is_running_, message_counts_, next_pid, ok_sends, ever_started>>
    /\ UNCHANGED lockVars

\* a caller invokes stopMechanism(m)
stopMechanism(m) ==
    /\ coord_pc.op = "idle"
    /\ StopBody(m, 0)

\* waitpid returns: the responder has exited (or is no child any more); closePipe /
\* closeSocket mark the channel inactive and stopMechanism runs to its end
StopReturn ==
    /\ coord_pc.op = "stop_wait"
    /\ LET m == coord_pc.mech
           c == manager_[m].child_pid_
       IN  /\ c \in DOMAIN procs => ~procs[c].alive
           /\ manager_' = [manager_ EXCEPT ![m] = [@ EXCEPT !.is_active_ = FALSE]]
           /\ StopTail(m, coord_pc.stage, Reaped(procs, c))
    /\ UNCHANGED <<is_running_, mechanism_status_, message_counts_, next_pid, open_fds,
                   kernel_shm, kernel_sem, ok_sends, ever_started>>
    /\ UNCHANGED lockVars

-----------------------------------------------------------------------------
(* IPCCoordinator::shutdown *)

\* (mutant) shutdown forgets the socket mechanism
ShutdownOrderNoSockets == <<"pipes", "shared_memory", "shared_memory">>

\* the order in which shutdown stops the mechanisms
ShutdownOrder == <<"pipes", "sockets", "shared_memory">>

\* shutdown() is entered: a coordinator that is not running returns at once
ShutdownCall ==
    /\ coord_pc.op = "idle"
    /\ IF ~is_running_
       THEN /\ last_call' = Call("shutdown", "none", TRUE, FALSE, FALSE, FALSE)
            /\ UNCHANGED coord_pc
       ELSE /\ coord_pc' = [op |-> "shutdown", mech |-> "none", stage |-> 1]
            /\ UNCHANGED last_call
    /\ UNCHANGED <<is_running_, manager_, mechanism_status_, mechanism_pids_,
                   message_counts_, mechanism_logs_, procs, next_pid, open_fds,
                   kernel_shm, kernel_sem, logged, ok_sends, ever_started>>
    /\ UNCHANGED lockVars

\* shutdown() calls stopMechanism for the next mechanism of its order
ShutdownStop ==
    /\ coord_pc.op = "shutdown"
    /\ coord_pc.stage \in 1..3
    /\ StopBody(ShutdownOrder[coord_pc.stage], coord_pc.stage)

\* the end of shutdown(): killAllChildren, then cleanup releases the managers, the logs
\* and the registered process identifiers
ShutdownFinish ==
    /\ coord_pc.op = "shutdown"
    /\ coord_pc.stage = 4
    /\ procs' = [x \in DOMAIN procs |->
                    IF \E m \in DOMAIN mechanism_pids_ : mechanism_pids_[m] = x
                    THEN [procs[x] EXCEPT !.alive = FALSE, !.holds = {}]
                    ELSE procs[x]]
    /\ manager_' = [m \in Mechanisms |-> NullManager(m)]
    /\ mechanism_logs_' = [m \in Mechanisms |-> <<>>]
    /\ mechanism_pids_' = <<>>
    /\ is_running_' = FALSE
    /\ last_call' = Call("shutdown", "none", TRUE, FALSE,
                         \E m \in DOMAIN mechanism_pids_ :
                             isProcessAlive(mechanism_pids_[m]), FALSE)
    /\ coord_pc' = Idle
    /\ UNCHANGED <<mechanism_status_, message_counts_, next_pid, open_fds, kernel_shm,
                   kernel_sem, logged, ok_sends, ever_started>>
    /\ UNCHANGED lockVars

-----------------------------------------------------------------------------
(* Concurrent callers *)

\* The coordinator holds no lock: each client thread runs startMechanism / sendMessage
\* on the shared maps and managers, and the steps of two threads interleave.

Threads == 1..NThreads

\* pc: where the thread is; mech: the mechanism of its call; local: the value it holds
\* (the create routine's result, or the counter it loaded); calls: calls it has made
ThreadIdle == [pc |-> "idle", mech |-> "none", local |-> 0, calls |-> 0]

\* the thread's record after its call returned
Returned(t) == [ThreadIdle EXCEPT !.calls = thr[t].calls + 1]

\* startMechanism, first part: the duplicate-start check
ThreadStartCheck(t, m) ==
    /\ thr[t].pc = "idle"
    /\ thr[t].calls < MaxThreadCalls
    /\ is_running_
    /\ thr' = [thr EXCEPT ![t] = IF AlreadyActive(m) THEN Returned(t)
                                 ELSE [@ EXCEPT !.pc = "create", !.mech = m]]
    /\ UNCHANGED coordVars
    /\ UNCHANGED lockVars

\* startMechanism, second part: the create routine (initializeX)
ThreadStartCreate(t, f) ==
    LET m == thr[t].mech IN
    /\ thr[t].pc = "create"
    /\ IF m = "shared_memory"
       THEN LET r == createSharedMemory(manager_[m], f) IN
            /\ manager_' = [manager_ EXCEPT ![m] = r.mgr]
            /\ kernel_shm' = r.shm
            /\ kernel_sem' = r.semset
            /\ sem' = IF r.ok THEN InitSemaphores ELSE sem
            /\ reader_count' = IF r.ok THEN 0 ELSE reader_count
            /\ is_writing' = IF r.ok THEN FALSE ELSE is_writing
            /\ thr' = [thr EXCEPT ![t] = [@ EXCEPT !.pc = "set",
                                                   !.local = IF r.ok THEN 1 ELSE 0]]
            /\ UNCHANGED <<procs, next_pid, open_fds>>
       ELSE LET r == createChannel(manager_[m], f) IN
            /\ manager_' = [manager_ EXCEPT ![m] = r.mgr]
            /\ procs' = IF r.ok
                        THEN [x \in DOMAIN procs \cup {r.child} |->
                                IF x = r.child
                                THEN [mech |-> m, alive |-> TRUE, holds |-> Inherited]
                                ELSE procs[x]]
                        ELSE procs
            /\ next_pid' = IF r.ok THEN next_pid + 1 ELSE next_pid
            /\ open_fds' = IF r.ok THEN open_fds \cup {r.child} ELSE open_fds
            /\ thr' = [thr EXCEPT ![t] = [@ EXCEPT !.pc = "set",
                                                   !.local = IF r.ok THEN 1 ELSE 0]]
            /\ UNCHANGED <<kernel_shm, kernel_sem, sem, reader_count, is_writing>>
    /\ UNCHANGED <<is_running_, mechanism_status_, mechanism_pids_, message_counts_,
                   mechanism_logs_, coord_pc, last_call, logged, ok_sends, ever_started,
                   pc>>

\* startMechanism, third part: set the flag, log "started", return
ThreadStartSet(t) ==
    LET m == thr[t].mech
        success == thr[t].local = 1
    IN
    /\ thr[t].pc = "set"
    /\ mechanism_status_' = StatusAfterStart(m, success)
    /\ mechanism_logs_' = IF success THEN logMechanismActivity(m, "started", "")
                                     ELSE mechanism_logs_
    /\ logged' = IF success THEN [logged EXCEPT ![m] = @ + 1] ELSE logged
    /\ ever_started' = IF success THEN ever_started \cup {m} ELSE ever_started
    /\ thr' = [thr EXCEPT ![t] = Returned(t)]
    /\ UNCHANGED <<is_running_, manager_, mechanism_pids_, message_counts_, coord_pc,
                   last_call, procs, next_pid, open_fds, kernel_shm, kernel_sem, ok_sends>>
    /\ UNCHANGED lockVars

\* sendMessage, first part: the flag check and the manager's send
ThreadSendWrite(t, m, io) ==
    LET attempted == /\ mechanism_status_[m]
                     /\ ManagerActive(m)
                     /\ IF m = "shared_memory" THEN ShmCanWrite(manager_[m])
                                               ELSE ChannelCanWrite(manager_[m])
    IN
    /\ thr[t].pc = "idle"
    /\ thr[t].calls < MaxThreadCalls
    /\ thr' = [thr EXCEPT ![t] = IF attempted /\ io
                                 THEN [@ EXCEPT !.pc = "load", !.mech = m]
                                 ELSE Returned(t)]
    /\ UNCHANGED coordVars
    /\ UNCHANGED lockVars

\* message_counts_[mechanism]++ is a load ...
ThreadSendLoad(t) ==
    /\ thr[t].pc = "load"
    /\ thr' = [thr EXCEPT ![t] = [@ EXCEPT !.pc = "store",
                                           !.local = message_counts_[thr[t].mech]]]
    /\ UNCHANGED coordVars
    /\ UNCHANGED lockVars

\* ... and a store of the loaded value plus one
ThreadSendStore(t) ==
    /\ thr[t].pc = "store"
    /\ message_counts_' = [message_counts_ EXCEPT ![thr[t].mech] = thr[t].local + 1]
    /\ thr' = [thr EXCEPT ![t] = [@ EXCEPT !.pc = "log"]]
    /\ UNCHANGED <<is_running_, manager_, mechanism_status_, mechanism_pids_,
                   mechanism_logs_, coord_pc, last_call, procs, next_pid, open_fds,
                   kernel_shm, kernel_sem, logged, ok_sends, ever_started>>
    /\ UNCHANGED lockVars

\* sendMessage, last part: log "message_sent" and return true
ThreadSendLog(t) ==
    LET m == thr[t].mech IN
    /\ thr[t].pc = "log"
    /\ mechanism_logs_' = logMechanismActivity(m, "message_sent", "hello")
    /\ logged' = [logged EXCEPT ![m] = @ + 1]
    /\ ok_sends' = [ok_sends EXCEPT ![m] = @ + 1]
    /\ thr' = [thr EXCEPT ![t] = Returned(t)]
    /\ UNCHANGED <<is_running_, manager_, mechanism_status_, mechanism_pids_,
                   message_counts_, coord_pc, last_call, procs, next_pid, open_fds,
                   kernel_shm, kernel_sem, ever_started>>
    /\ UNCHANGED lockVars

-----------------------------------------------------------------------------
(* A channel manager on its own *)

\* PipeManager and SocketManager taken alone, as one image of the process sees its
\* manager object.  kind: "pipes" or "sockets"; image: which side of the fork the object
\* lives in; fd_w: the write end (pipe_fd_[1], socket_fd_[1]): -1 unset, 0 a closed
\* descriptor left in the field, 1 open; status: last_operation_.status; phase: what was
\* last done to the channel (constructed, ready, failed, closed)

\* no manager object yet
NoChannel == [kind |-> "none", image |-> "initiator", is_active_ |-> FALSE,
              is_parent_ |-> TRUE, fd_w |-> -1, child_pid_ |-> -1, status |-> "idle",
              phase |-> "none"]

\* no channel call made yet.  requested: bytes handed to write(); bytes: its result
NoChanCall == [op |-> "none", tick |-> 0, len |-> 0, result |-> FALSE,
               requested |-> 0, bytes |-> 0]

\* PipeManager::PipeManager, SocketManager::SocketManager
NewChannel(kind) == [NoChannel EXCEPT !.kind = kind, !.phase = "constructed"]

\* message lengths around the socket cap
MessageLengths == {0, 1, MAX_MESSAGE_SIZE - 1, MAX_MESSAGE_SIZE, MAX_MESSAGE_SIZE + 1,
                   MAX_MESSAGE_SIZE + 2}

Images == {"initiator", "responder"}

\* PipeManager::createPipe, SocketManager::createSocket as the image sees it return (the
\* initiator) or enter runChildLoop (the responder, which never sets is_active_)
ChannelAfterCreate(ch, f, image) ==
    CASE f = "create" -> [ch EXCEPT !.status = "error_create", !.phase = "failed"]
      [] f = "fork"   -> [ch EXCEPT !.fd_w = 0, !.child_pid_ = -1,
                                    !.status = "error_fork", !.phase = "failed"]
      [] OTHER        ->
           IF image = "responder"
           THEN [ch EXCEPT !.image = "responder", !.is_parent_ = FALSE, !.fd_w = -1,
                           !.child_pid_ = 0]
           ELSE [ch EXCEPT !.is_parent_ = TRUE, !.fd_w = 1, !.child_pid_ = 1,
                           !.is_active_ = TRUE, !.status = "ready", !.phase = "ready"]

\* (mutant) the cap is one byte lower
TooLargeAtCap(kind, len) == kind = "sockets" /\ len >= MAX_MESSAGE_SIZE

\* SocketManager::sendMessage's size check; PipeManager::sendMessage has none
TooLarge(kind, len) == kind = "sockets" /\ len > MAX_MESSAGE_SIZE

\* (mutant) only the active flag is looked at
InvalidStateInactiveOnly(ch) == ~ch.is_active_

\* the state check of both sendMessage functions
InvalidState(ch) == ~ch.is_active_ \/ ~ch.is_parent_ \/ ch.fd_w = -1

\* PipeManager::sendMessage, SocketManager::sendMessage: the outcome for a message of
\* len bytes when write() succeeds (io) or fails
ChannelSend(ch, len, io) ==
    IF TooLarge(ch.kind, len)
    THEN [result |-> FALSE, requested |-> 0, bytes |-> 0,
          status |-> "error_message_too_large"]
    ELSE IF InvalidState(ch)
    THEN [result |-> FALSE, requested |-> 0, bytes |-> 0, status |-> "error_invalid_state"]
    ELSE IF ~io
    THEN [result |-> FALSE, requested |-> len + 1, bytes |-> 0, status |-> "error_write"]
    ELSE [result |-> TRUE, requested |-> len + 1, bytes |-> len + 1, status |-> "sent"]

\* PipeManager::closePipe, SocketManager::closeSocket
ChannelAfterClose(ch) ==
    IF ~ch.is_active_ THEN ch
    ELSE [ch EXCEPT !.fd_w = IF ch.is_parent_ THEN -1 ELSE ch.fd_w,
                    !.is_active_ = FALSE, !.status = "closed", !.phase = "closed"]

ChanCalled(op, len, r) ==
    [op |-> op, tick |-> 1 - chan_call.tick, len |-> len, result |-> r.result,
     requested |-> r.requested, bytes |-> r.bytes]

NoWrite == [result |-> FALSE, requested |-> 0, bytes |-> 0]

ChanConstruct(kind) ==
    /\ chan.kind = "none"
    /\ chan' = NewChannel(kind)
    /\ chan_call' = ChanCalled("construct", 0, NoWrite)

ChanCreate(f, image) ==
    /\ chan.kind # "none"
    /\ chan.image = "initiator"
    /\ chan' = ChannelAfterCreate(chan, f, image)
    /\ chan_call' = ChanCalled("create", 0, [NoWrite EXCEPT !.result = (f = "ok")])

ChanSendMessage(len, io) ==
    LET r == ChannelSend(chan, len, io) IN
    /\ chan.kind # "none"
    /\ chan' = [chan EXCEPT !.status = r.status]
    /\ chan_call' = ChanCalled("send", len, r)

ChanClose ==
    /\ chan.kind # "none"
    /\ chan' = ChannelAfterClose(chan)
    /\ chan_call' = ChanCalled("close", 0, NoWrite)

\* ---- the responder's loop (runChildLoop) ----
\* The bytes of one message and its terminator as they sit in the kernel buffer:
\* len bytes of text, then the newline; off bytes of them have been read.
\* A record is the piece of the text one pass of the loop recorded: text bytes
\* from..from+n-1.

NoWire == [sent |-> FALSE, len |-> 0, off |-> 0]

\* lengths around the socket cap and around the pipe responder's buffer
LoopLengths == MessageLengths \cup {PIPE_BUF_SIZE - 2, PIPE_BUF_SIZE - 1, PIPE_BUF_SIZE}

\* sizeof(buf) of the responder
BufSize(kind) == IF kind = "sockets" THEN SOCKET_BUF_SIZE ELSE PIPE_BUF_SIZE

\* bytes of the message and terminator still unread
Unread(w) == IF w.sent THEN w.len + 1 - w.off ELSE 0

\* read(fd, buf, sizeof(buf) - 1) when the whole message is in the kernel buffer
BytesRead(kind, w) ==
    IF Unread(w) < BufSize(kind) - 1 THEN Unread(w) ELSE BufSize(kind) - 1

\* one pass of the loop over n bytes read: drop a trailing newline, record the text
\* unless it is empty
Recorded(w, n) ==
    LET text == IF w.off + n = w.len + 1 THEN n - 1 ELSE n
    IN IF text > 0 THEN <<[from |-> w.off, n |-> text]>> ELSE <<>>

\* sendMessage by the initiator once the responder has read all of the last message
LoopSend(len, io) ==
    LET r == ChannelSend(chan, len, io) IN
    /\ Unread(wire) = 0
    /\ ChanSendMessage(len, io)
    /\ wire' = IF r.result THEN [sent |-> TRUE, len |-> len, off |-> 0] ELSE wire
    /\ records' = IF r.result THEN <<>> ELSE records

\* one pass of runChildLoop's while (true)
LoopRead ==
    LET n == BytesRead(chan.kind, wire) IN
    /\ Unread(wire) > 0
    /\ wire' = [wire EXCEPT !.off = @ + n]
    /\ records' = records \o Recorded(wire, n)
    /\ UNCHANGED chanVars

-----------------------------------------------------------------------------
(* SharedMemoryManager objects of several processes, used directly *)

\* Every process has its own manager; all use one key, so kernel_shm and kernel_sem are
\* the segment and the semaphore set of that key.  A call runs from entry to return
\* with no other process inside the lock, so a semaphore wait on an existing set passes.

ShmProcs == 1..NManagers

\* a message: its text and its length in bytes
EmptyMsg == [txt |-> "", len |-> 0]
ShmLengths == {1, SHM_DATA_SIZE - 1, SHM_DATA_SIZE}
ShmMsgs == {EmptyMsg} \cup [txt : {"a", "b"}, len : ShmLengths]

\* strcpy(shared_segment_->data, ...) in createSharedMemory
InitialData == [txt |-> "init", len |-> 34]

\* strncpy(data, message, sizeof(data) - 1); data[sizeof(data) - 1] = 0
Stored(msg) == IF msg.len > SHM_DATA_SIZE - 1 THEN [msg EXCEPT !.len = SHM_DATA_SIZE - 1]
               ELSE msg

\* no call made yet.  tick: calls made so far; semops: semaphore operations issued by the call; touched: the
\* call read or wrote the segment; error: which error message was recorded
NoShmCall == [proc |-> 0, op |-> "none", tick |-> 0, msg |-> EmptyMsg, ok |-> FALSE,
              content |-> EmptyMsg, status |-> "none", error |-> "none", semops |-> 0,
              touched |-> FALSE]

ShmCalled(p, op, msg, ok, content, error, semops, touched) ==
    [proc |-> p, op |-> op, tick |-> shm_call.tick + 1, msg |-> msg, ok |-> ok,
     content |-> content, status |-> IF ok THEN "success" ELSE "error",
     error |-> error, semops |-> semops, touched |-> touched]

\* (mutant) the attachment is not looked at
ShmUsableAlways(mgr) == TRUE

\* the first test of writeMessage and readMessage
ShmUsable(mgr) == mgr.is_attached_ /\ mgr.shared_segment_

\* what lockForWrite / lockForRead do for a manager when nobody holds the lock:
\* nothing without a semaphore id, a failed semop when the set is gone, else they pass
LockOutcome(mgr) ==
    IF mgr.semid_ = -1 THEN [ok |-> FALSE, semops |-> 0]
    ELSE IF ~kernel_sem THEN [ok |-> FALSE, semops |-> 1]
    ELSE [ok |-> TRUE, semops |-> 2]

\* SharedMemoryManager::createSharedMemory
ShmCreate(p, f) ==
    LET r == createSharedMemory(shm_mgr[p], f) IN
    /\ shm_mgr' = [shm_mgr EXCEPT ![p] = r.mgr]
    /\ kernel_shm' = r.shm
    /\ kernel_sem' = r.semset
    /\ seg_data' = IF r.ok THEN InitialData ELSE seg_data
    /\ shm_call' = ShmCalled(p, "create", EmptyMsg, r.ok,
                             IF r.ok THEN InitialData ELSE EmptyMsg,
                             IF r.ok THEN "none" ELSE f, 0, r.ok)

\* SharedMemoryManager::attachToMemory(key) on a manager that holds no segment id
attachToMemory(mgr, f) ==
    IF ~kernel_shm \/ f = "shmget" THEN [ok |-> FALSE, mgr |-> mgr]
    ELSE IF f = "shmat"
    THEN [ok |-> FALSE, mgr |-> [mgr EXCEPT !.shmid_ = 1, !.shared_segment_ = FALSE]]
    ELSE [ok |-> TRUE,
          mgr |-> [mgr EXCEPT !.shmid_ = 1, !.shared_segment_ = TRUE,
                              !.is_attached_ = TRUE]]

ShmAttach(p, f) ==
    LET r == attachToMemory(shm_mgr[p], f) IN
    /\ shm_mgr[p].shmid_ = -1
    /\ shm_mgr' = [shm_mgr EXCEPT ![p] = r.mgr]
    /\ shm_call' = ShmCalled(p, "attach", EmptyMsg, r.ok, EmptyMsg,
                             IF r.ok THEN "none" ELSE f, 0, FALSE)
    /\ UNCHANGED <<kernel_shm, kernel_sem, seg_data>>

\* SharedMemoryManager::writeMessage
writeMessage(mgr, msg) ==
    IF ~ShmUsable(mgr)
    THEN [ok |-> FALSE, data |-> seg_data, error |-> "not_attached", semops |-> 0,
          touched |-> FALSE]
    ELSE IF ~LockOutcome(mgr).ok
    THEN [ok |-> FALSE, data |-> seg_data, error |-> "lock_failed",
          semops |-> LockOutcome(mgr).semops, touched |-> FALSE]
    ELSE [ok |-> TRUE, data |-> Stored(msg), error |-> "none", semops |-> 2,
          touched |-> TRUE]

ShmWrite(p, msg) ==
    LET r == writeMessage(shm_mgr[p], msg) IN
    /\ seg_data' = r.data
    /\ shm_call' = ShmCalled(p, "write", msg, r.ok, IF r.ok THEN r.data ELSE EmptyMsg,
                             r.error, r.semops, r.touched)
    /\ UNCHANGED <<shm_mgr, kernel_shm, kernel_sem>>

\* SharedMemoryManager::readMessage
readMessage(mgr) ==
    IF ~ShmUsable(mgr)
    THEN [ok |-> FALSE, content |-> EmptyMsg, error |-> "not_attached", semops |-> 0,
          touched |-> FALSE]
    ELSE IF ~LockOutcome(mgr).ok
    THEN [ok |-> FALSE, content |-> EmptyMsg, error |-> "lock_failed",
          semops |-> LockOutcome(mgr).semops, touched |-> FALSE]
    ELSE [ok |-> TRUE, content |-> seg_data, error |-> "none", semops |-> 2,
          touched |-> TRUE]

ShmRead(p) ==
    LET r == readMessage(shm_mgr[p]) IN
    /\ shm_call' = ShmCalled(p, "read", EmptyMsg, r.ok, r.content, r.error, r.semops,
                             r.touched)
    /\ UNCHANGED <<shm_mgr, seg_data, kernel_shm, kernel_sem>>

\* SharedMemoryManager::destroySharedMemory; f = "shmctl": shmctl(IPC_RMID) is refused,
\* the function returns after semctl(IPC_RMID) and before cleanup
ShmDestroyOutcome(mgr, f) ==
    IF mgr.is_creator_ /\ mgr.shmid_ # -1 /\ f = "shmctl"
    THEN [ok |-> FALSE, mgr |-> mgr, shm |-> kernel_shm,
          semset |-> IF mgr.semid_ # -1 THEN FALSE ELSE kernel_sem]
    ELSE [ok |-> TRUE, mgr |-> destroySharedMemory(mgr).mgr,
          shm |-> destroySharedMemory(mgr).shm,
          semset |-> destroySharedMemory(mgr).semset]

ShmDestroy(p, f) ==
    LET r == ShmDestroyOutcome(shm_mgr[p], f) IN
    /\ shm_mgr' = [shm_mgr EXCEPT ![p] = r.mgr]
    /\ kernel_shm' = r.shm
    /\ kernel_sem' = r.semset
    /\ shm_call' = ShmCalled(p, "destroy", EmptyMsg, r.ok, EmptyMsg,
                             IF r.ok THEN "none" ELSE f, 0, FALSE)
    /\ UNCHANGED seg_data

-----------------------------------------------------------------------------
(* IPCCoordinator::executeCommand and IPCCoordinator::restartMechanism *)

\* the caller is inside no command
NoCmd == [action |-> "none", mech |-> "none"]

NoResponse == [tick |-> 0, action |-> "none", mech |-> "none", status |-> "none",
               message |-> "none", limit |-> FALSE]

\* actions executeCommand knows, and one it does not know
KnownActions == {"start", "stop", "send", "status", "logs"}
CommandActions == KnownActions \cup {"invalid_action"}

\* the "status" field of the response for the boolean an operation returned
StatusWord(success) == IF success THEN "success" ELSE "error"

\* the "message" field of the response (without the mechanism's name)
MessageText(action, success) ==
    CASE action = "start" -> IF success THEN "started" ELSE "failed to start"
      [] action = "stop"  -> IF success THEN "stopped" ELSE "failed to stop"
      [] action = "send"  -> IF success THEN "message sent" ELSE "failed to send message"
      [] OTHER            -> "unknown command"

\* the response of a call that has just returned; limit: the kernel refused a resource
Reply(action, m, status, message, limit) ==
    [tick |-> 1 - response.tick, action |-> action, mech |-> m, status |-> status,
     message |-> message, limit |-> limit]

\* executeCommand with action "start"
ExecuteStart(m, f) ==
    /\ cmd = NoCmd
    /\ startMechanism(m, f)
    /\ response' = Reply("start", m, StatusWord(last_call'.result),
                         MessageText("start", last_call'.result), f # "ok")
    /\ UNCHANGED cmd

\* executeCommand with action "stop", up to the return of stopMechanism or to its wait
ExecuteStop(m) ==
    /\ cmd = NoCmd
    /\ stopMechanism(m)
    /\ IF coord_pc'.op = "stop_wait"
       THEN /\ cmd' = [action |-> "stop", mech |-> m]
            /\ UNCHANGED response
       ELSE /\ response' = Reply("stop", m, StatusWord(last_call'.result),
                                 MessageText("stop", last_call'.result), FALSE)
            /\ UNCHANGED cmd

\* executeCommand with action "send"
ExecuteSend(m, msg, io) ==
    /\ cmd = NoCmd
    /\ sendMessage(m, msg, io)
    /\ response' = Reply("send", m, StatusWord(last_call'.result),
                         MessageText("send", last_call'.result), ~io)
    /\ UNCHANGED cmd

\* executeCommand with action "status" or "logs": getStatusJSON
ExecuteStatus(action) ==
    /\ cmd = NoCmd
    /\ coord_pc.op = "idle"
    /\ action \in {"status", "logs"}
    /\ response' = Reply(action, "none", "json", "status", FALSE)
    /\ UNCHANGED cmd
    /\ UNCHANGED coordVars
    /\ UNCHANGED lockVars

\* executeCommand with any other action
ExecuteUnknown(action, m) ==
    /\ cmd = NoCmd
    /\ coord_pc.op = "idle"
    /\ action \notin KnownActions
    /\ response' = Reply(action, m, "error", MessageText(action, FALSE), FALSE)
    /\ UNCHANGED cmd
    /\ UNCHANGED coordVars
    /\ UNCHANGED lockVars

\* the waitpid inside a stopMechanism returns; a stop command then builds its response,
\* a restart goes on to its start
CommandStopReturn ==
    /\ StopReturn
    /\ IF cmd.action = "stop"
       THEN /\ response' = Reply("stop", cmd.mech, StatusWord(last_call'.result),
                                 MessageText("stop", last_call'.result), FALSE)
            /\ cmd' = NoCmd
       ELSE UNCHANGED <<cmd, response>>

\* restartMechanism: stopMechanism(m) ...
restartMechanism(m) ==
    /\ cmd = NoCmd
    /\ stopMechanism(m)
    /\ cmd' = [action |-> "restart", mech |-> m]
    /\ UNCHANGED response

\* ... then, after the settle delay, return startMechanism(m)
RestartStart(f) ==
    /\ cmd.action = "restart"
    /\ startMechanism(cmd.mech, f)
    /\ response' = Reply("restart", cmd.mech, StatusWord(last_call'.result),
                         "restart", f # "ok")
    /\ cmd' = NoCmd

-----------------------------------------------------------------------------
(* IPCCommand::fromJSON *)

\* texts a JSON value can hold for the keys the parser looks up; "" stands for a key
\* that is absent or whose value is the empty string (extractStringValue returns "")
ActionTexts == {"", "start", "stop", "send", "status", "logs", "restart"}
MechanismTexts == {"", "pipes", "sockets", "shared_memory", "tcp"}
MessageTexts == {"", "hello"}

\* the JSON texts handed to fromJSON: braces tells whether the text has a { and a }
JsonTexts ==
    [braces : BOOLEAN, action : ActionTexts, mechanism : MechanismTexts,
     message : MessageTexts]

\* a default-constructed IPCCommand, on which fromJSON has not been called; the enum
\* member has no initializer, so its value is indeterminate until fromJSON assigns it
NewCommand ==
    [action |-> "", mechanism |-> "indeterminate", message |-> "",
     called |-> FALSE, json |-> [braces |-> FALSE, action |-> "", mechanism |-> "",
                                 message |-> ""],
     result |-> FALSE]

\* the mechanism fromJSON stores for the text of the mechanism key
MechanismOf(text) == IF text \in Mechanisms THEN text ELSE "pipes"

\* the test fromJSON makes of the mechanism text of a start, stop or send command
MechanismMissing(text) == text = ""

\* how far fromJSON gets: the fields are assigned one after the other and an early
\* return leaves the later ones as they were
fromJSON(c, json) ==
    IF ~json.braces \/ json.action = "" THEN [c EXCEPT !.result = FALSE]
    ELSE IF json.action \notin {"start", "stop", "send", "status", "logs"}
    THEN [c EXCEPT !.result = FALSE]
    ELSE [c EXCEPT !.action = json.action,
                   !.mechanism = MechanismOf(json.mechanism),
                   !.message = json.message,
                   !.result =
                       /\ ~(json.action \in {"start", "stop"}
                                /\ MechanismMissing(json.mechanism))
                       /\ ~(json.action = "send"
                                /\ (MechanismMissing(json.mechanism) \/ json.message = ""))]

\* cmd.fromJSON(json) on an IPCCommand object, which may have been parsed into before
FromJSONCall(json) ==
    ipc_command' = [fromJSON(ipc_command, json) EXCEPT !.called = TRUE, !.json = json]

-----------------------------------------------------------------------------
(* shutdown() entered from IPCCoordinator::signalHandler *)

\* no call is suspended under the signal handler
NotInterrupted == [op |-> "none", mech |-> "none", stage |-> 0]

\* no teardown body was entered in this running period
NoEntry == [entries |-> 0, interrupted |-> NotInterrupted]

\* initialize() of the main thread: a new running period begins
SignalInitialize ==
    /\ shutdown_entry.interrupted = NotInterrupted
    /\ Initialize
    /\ shutdown_entry' = NoEntry

\* the main thread starts a mechanism
SignalStart(m, f) ==
    /\ shutdown_entry.interrupted = NotInterrupted
    /\ startMechanism(m, f)
    /\ UNCHANGED shutdown_entry

\* the main thread calls shutdown() (main.cpp, the destructor)
SignalShutdownCall ==
    /\ shutdown_entry.interrupted = NotInterrupted
    /\ ShutdownCall
    /\ shutdown_entry' = IF is_running_
                         THEN [shutdown_entry EXCEPT !.entries = @ + 1]
                         ELSE shutdown_entry

\* SIGINT or SIGTERM is delivered while the main thread is idle or between two calls of
\* its shutdown(): the handler sets shutdown_requested_ and calls shutdown(), which runs
\* on the interrupted thread until it returns. is_running_ is cleared by the last
\* statement of the teardown body only, so the guard of shutdown() still reads true
\* while a teardown is in progress
signalHandler ==
    /\ coord_pc.op \in {"idle", "shutdown"}
    /\ shutdown_entry.interrupted = NotInterrupted
    /\ IF ~is_running_
       THEN UNCHANGED <<coord_pc, shutdown_entry>>
       ELSE /\ coord_pc' = [op |-> "shutdown", mech |-> "none", stage |-> 1]
            /\ shutdown_entry' = [entries |-> shutdown_entry.entries + 1,
                                  interrupted |-> coord_pc]
    /\ UNCHANGED <<is_running_, manager_, mechanism_status_, mechanism_pids_,
                   message_counts_, mechanism_logs_, last_call, procs, next_pid, open_fds,
                   kernel_shm, kernel_sem, logged, ok_sends, ever_started>>
    /\ UNCHANGED lockVars

\* the handler's shutdown() has returned: the interrupted call goes on where it was
SignalReturn ==
    /\ coord_pc.op = "idle"
    /\ shutdown_entry.interrupted # NotInterrupted
    /\ coord_pc' = shutdown_entry.interrupted
    /\ shutdown_entry' = [shutdown_entry EXCEPT !.interrupted = NotInterrupted]
    /\ UNCHANGED <<is_running_, manager_, mechanism_status_, mechanism_pids_,
                   message_counts_, mechanism_logs_, last_call, procs, next_pid, open_fds,
                   kernel_shm, kernel_sem, logged, ok_sends, ever_started>>
    /\ UNCHANGED lockVars

-----------------------------------------------------------------------------
(* unlock() called by a process that holds no lock *)

\* the process that never calls lockForRead or lockForWrite: the first one
Bystander == CHOOSE p \in Procs : \A q \in Procs : p <= q

\* writeLock and reader_count are within the range they have under callers that unlock
\* what they hold; no new call is made once they have left it, which keeps them bounded
WithinRange == sem[SEM_WRITE] <= 1 /\ reader_count \in 0..NProcs

\* unlock() called by the bystander: the same entry and the same branch as for a holder,
\* since nothing in the manager records what the caller holds
BystanderUnlockCall ==
    /\ pc[Bystander] = "idle"
    /\ WithinRange
    /\ pc' = [pc EXCEPT ![Bystander] = UnlockBranch]
    /\ UNCHANGED <<sem, reader_count, is_writing>>

\* the steps of unlock() after its entry
UnlockGoesOn(p) ==
    \/ UnlockClearFlag(p) \/ UnlockSignalWriter(p)
    \/ UnlockMutex(p) \/ UnlockCount(p) \/ UnlockSignalLastReader(p)
    \/ UnlockSignalMutex(p)

-----------------------------------------------------------------------------
(* Specifications *)

Init ==
    /\ sem = InitSemaphores
    /\ reader_count = 0
    /\ is_writing = FALSE
    /\ pc = [p \in Procs |-> "idle"]
    /\ is_running_ = FALSE
    /\ manager_ = [m \in Mechanisms |-> NullManager(m)]
    /\ mechanism_status_ = [m \in Mechanisms |-> FALSE]
    /\ mechanism_pids_ = <<>>
    /\ message_counts_ = [m \in Mechanisms |-> 0]
    /\ mechanism_logs_ = [m \in Mechanisms |-> <<>>]
    /\ coord_pc = Idle
    /\ last_call = NoCall
    /\ procs = <<>>
    /\ next_pid = 1
    /\ open_fds = {}
    /\ kernel_shm = FALSE
    /\ kernel_sem = FALSE
    /\ logged = [m \in Mechanisms |-> 0]
    /\ ok_sends = [m \in Mechanisms |-> 0]
    /\ ever_started = {}
    /\ cmd = NoCmd
    /\ response = NoResponse
    /\ thr = [t \in Threads |-> ThreadIdle]
    /\ chan = NoChannel
    /\ chan_call = NoChanCall
    /\ wire = NoWire
    /\ records = <<>>
    /\ shm_mgr = [p \in ShmProcs |-> FreshShm]
    /\ seg_data = EmptyMsg
    /\ shm_call = NoShmCall
    /\ halves = <<0, 0>>
    /\ rw = [p \in Procs |-> NoIo]
    /\ committed = 0
    /\ writes = 0
    /\ semadj = [p \in Procs |-> NoAdjust]
    /\ ret = [p \in Procs |-> NoLockCall]
    /\ lock_calls = 0
    /\ ipc_command = NewCommand
    /\ shutdown_entry = NoEntry

\* the processes attached to one created segment, each calling lockForRead,
\* lockForWrite and unlock (unlock only for a lock it holds)
NextLock ==
    \E p \in Procs :
        LockStep(p) /\ UNCHANGED coordVars /\ UNCHANGED <<cmdVars, threadVars, chanVars, dataVars>>

SpecLock == Init /\ [][NextLock]_vars

\* a step of process p inside lockForRead, lockForWrite or unlock (a wait included, which
\* can be taken only while the semaphore is positive), as a whole step of the system
LockGoesOn(p) ==
    /\ \/ LockForWriteWait(p) \/ LockForWriteFlag(p)
       \/ LockForReadMutex(p) \/ LockForReadCount(p) \/ LockForReadWrite(p)
       \/ LockForReadSignal(p)
       \/ UnlockClearFlag(p) \/ UnlockSignalWriter(p)
       \/ UnlockMutex(p) \/ UnlockCount(p) \/ UnlockSignalLastReader(p)
       \/ UnlockSignalMutex(p)
    /\ UNCHANGED coordVars
    /\ UNCHANGED <<cmdVars, threadVars, chanVars, dataVars>>

\* unlock() called by the holder, as a whole step of the system
HolderReleases(p) ==
    UnlockCall(p) /\ UNCHANGED coordVars /\ UNCHANGED <<cmdVars, threadVars, chanVars, dataVars>>

\* every process is scheduled, and a semop whose semaphore is positive again and again
\* completes; whether a process calls lockForRead, lockForWrite or unlock is up to the
\* process, so a holder may keep its lock for ever
SpecLockFair == SpecLock /\ \A p \in Procs : SF_vars(LockGoesOn(p))

\* as SpecLockFair, and every holder calls unlock
SpecLockBusy == SpecLockFair /\ \A p \in Procs : WF_vars(HolderReleases(p))

\* steps of the responders and of a blocked caller, as whole steps of the system
ResponderExits ==
    \E c \in DOMAIN procs : ChildExit(c) /\ UNCHANGED <<cmdVars, threadVars, chanVars, dataVars>>
WaitReturns == StopReturn /\ UNCHANGED <<cmdVars, threadVars, chanVars, dataVars>>
ShutdownGoesOn ==
    (ShutdownStop \/ ShutdownFinish) /\ UNCHANGED <<cmdVars, threadVars, chanVars, dataVars>>
CommandWaitReturns == CommandStopReturn /\ UNCHANGED <<threadVars, chanVars, dataVars>>
RestartGoesOn ==
    \E f \in Outcomes(cmd.mech) : RestartStart(f) /\ UNCHANGED <<threadVars, chanVars, dataVars>>

\* one caller at a time drives the coordinator; the responders run beside it
NextCoord ==
    \/ Initialize /\ UNCHANGED <<cmdVars, threadVars, chanVars, dataVars>>
    \/ \E m \in Mechanisms : \E f \in Outcomes(m) :
          /\ TotalLogged < MaxEvents /\ startMechanism(m, f)
          /\ UNCHANGED <<cmdVars, threadVars, chanVars, dataVars>>
    \/ \E m \in Mechanisms :
          /\ TotalLogged < MaxEvents /\ stopMechanism(m)
          /\ UNCHANGED <<cmdVars, threadVars, chanVars, dataVars>>
    \/ \E m \in Mechanisms : \E msg \in Msgs : \E io \in BOOLEAN :
          /\ TotalLogged < MaxEvents /\ sendMessage(m, msg, io)
          /\ UNCHANGED <<cmdVars, threadVars, chanVars, dataVars>>
    \/ WaitReturns
    \/ TotalLogged < MaxEvents /\ ShutdownCall /\ UNCHANGED <<cmdVars, threadVars, chanVars, dataVars>>
    \/ ShutdownStop /\ UNCHANGED <<cmdVars, threadVars, chanVars, dataVars>>
    \/ ShutdownFinish /\ UNCHANGED <<cmdVars, threadVars, chanVars, dataVars>>
    \/ ResponderExits

SpecCoord == Init /\ [][NextCoord]_vars

\* the responders are processes of their own that the kernel keeps scheduling, and a
\* waitpid whose child has exited returns
SpecCoordFair ==
    /\ SpecCoord
    /\ WF_vars(ResponderExits)
    /\ WF_vars(WaitReturns)
    /\ WF_vars(ShutdownGoesOn)

\* the mechanism whose log is driven beyond its capacity
LogMech == "sockets"

\* a caller that keeps stopping mechanisms: every stopMechanism call logs one entry
NextLog ==
    \E m \in Mechanisms :
        /\ logged[m] < (IF m = LogMech THEN MaxLogEntries + LogOverrun ELSE 1)
        /\ stopMechanism(m)
        /\ UNCHANGED <<cmdVars, threadVars, chanVars, dataVars>>

\* a caller that drives the coordinator through executeCommand and restartMechanism
NextCmd ==
    \/ cmd = NoCmd /\ Initialize /\ UNCHANGED <<cmdVars, threadVars, chanVars, dataVars>>
    \/ \E m \in Mechanisms : \E f \in Outcomes(m) :
          TotalLogged < MaxCmdEvents /\ ExecuteStart(m, f) /\ UNCHANGED <<threadVars, chanVars, dataVars>>
    \/ \E m \in Mechanisms :
          TotalLogged < MaxCmdEvents /\ ExecuteStop(m) /\ UNCHANGED <<threadVars, chanVars, dataVars>>
    \/ \E m \in Mechanisms : \E msg \in Msgs : \E io \in BOOLEAN :
          TotalLogged < MaxCmdEvents /\ ExecuteSend(m, msg, io)
          /\ UNCHANGED <<threadVars, chanVars, dataVars>>
    \/ \E a \in CommandActions : ExecuteStatus(a) /\ UNCHANGED <<threadVars, chanVars, dataVars>>
    \/ \E a \in CommandActions : \E m \in Mechanisms :
          ExecuteUnknown(a, m) /\ UNCHANGED <<threadVars, chanVars, dataVars>>
    \/ \E m \in Mechanisms :
          TotalLogged < MaxCmdEvents /\ restartMechanism(m) /\ UNCHANGED <<threadVars, chanVars, dataVars>>
    \/ RestartGoesOn
    \/ CommandWaitReturns
    \/ ResponderExits

\* main initializes the coordinator, then the HTTP server's client threads call it
NextThreads ==
    \/ Initialize /\ UNCHANGED <<cmdVars, threadVars, chanVars, dataVars>>
    \/ \E t \in Threads : \E m \in Mechanisms :
          ThreadStartCheck(t, m) /\ UNCHANGED <<cmdVars, chanVars, dataVars>>
    \/ \E t \in Threads : \E f \in Outcomes(thr[t].mech) :
          ThreadStartCreate(t, f) /\ UNCHANGED <<cmdVars, chanVars, dataVars>>
    \/ \E t \in Threads : ThreadStartSet(t) /\ UNCHANGED <<cmdVars, chanVars, dataVars>>
    \/ \E t \in Threads : \E m \in Mechanisms : \E io \in BOOLEAN :
          ThreadSendWrite(t, m, io) /\ UNCHANGED <<cmdVars, chanVars, dataVars>>
    \/ \E t \in Threads : ThreadSendLoad(t) /\ UNCHANGED <<cmdVars, chanVars, dataVars>>
    \/ \E t \in Threads : ThreadSendStore(t) /\ UNCHANGED <<cmdVars, chanVars, dataVars>>
    \/ \E t \in Threads : ThreadSendLog(t) /\ UNCHANGED <<cmdVars, chanVars, dataVars>>

SpecThreads == Init /\ [][NextThreads]_vars

NextChan ==
    \/ \E kind \in Channels :
          ChanConstruct(kind) /\ UNCHANGED <<coordVars, lockVars, cmdVars, threadVars, dataVars>>
    \/ \E f \in ChannelOutcomes : \E image \in Images :
          ChanCreate(f, image) /\ UNCHANGED <<coordVars, lockVars, cmdVars, threadVars, dataVars>>
    \/ \E len \in MessageLengths : \E io \in BOOLEAN :
          ChanSendMessage(len, io) /\ UNCHANGED <<coordVars, lockVars, cmdVars, threadVars, dataVars>>
    \/ ChanClose /\ UNCHANGED <<coordVars, lockVars, cmdVars, threadVars, dataVars>>

SpecChan == Init /\ [][NextChan]_vars

\* a channel, its initiator and its responder's loop
LoopRest == <<coordVars, lockVars, cmdVars, threadVars, shmVars, segVars, timedVars, jsonVars,
             signalVars>>

NextLoop ==
    \/ \E kind \in Channels :
          ChanConstruct(kind)
          /\ UNCHANGED <<LoopRest, loopVars>>
    \/ \E f \in ChannelOutcomes :
          /\ Unread(wire) = 0
          /\ ChanCreate(f, "initiator")
          /\ UNCHANGED <<LoopRest, loopVars>>
    \/ \E len \in LoopLengths : \E io \in BOOLEAN :
          LoopSend(len, io) /\ UNCHANGED LoopRest
    \/ LoopRead /\ UNCHANGED LoopRest
    \/ /\ Unread(wire) = 0
       /\ ChanClose
       /\ UNCHANGED <<LoopRest, loopVars>>

SpecLoop == Init /\ [][NextLoop]_vars

\* the processes attached to one created segment, each calling writeMessage and
\* readMessage
SegRest == <<coordVars, cmdVars, threadVars, chanVars, loopVars, shmVars, timedVars, jsonVars,
            signalVars>>

NextSeg ==
    \/ \E p \in Procs : WriteMessageCall(p) /\ UNCHANGED SegRest
    \/ \E p \in Procs : ReadMessageCall(p) /\ UNCHANGED SegRest
    \/ \E p \in Procs : ReadLockAcquired(p) /\ UNCHANGED SegRest
    \/ \E p \in Procs : LockInside(p) /\ UNCHANGED SegRest
    \/ \E p \in Procs : WriteCopyFirst(p) /\ UNCHANGED SegRest
    \/ \E p \in Procs : WriteCopySecond(p) /\ UNCHANGED SegRest
    \/ \E p \in Procs : ReadCopyFirst(p) /\ UNCHANGED SegRest
    \/ \E p \in Procs : ReadCopySecond(p) /\ UNCHANGED SegRest
    \/ \E p \in Procs : CopyDoneUnlock(p) /\ UNCHANGED SegRest

SpecSeg == Init /\ [][NextSeg]_vars

\* processes using their SharedMemoryManager directly, one call at a time
ShmRest == <<coordOnly, lockVars, cmdVars, threadVars, chanVars, loopVars, segVars,
            timedVars, jsonVars, signalVars>>

NextShm ==
    \/ \E p \in ShmProcs : \E f \in ShmOutcomes :
          shm_call.tick < MaxShmCalls /\ ShmCreate(p, f) /\ UNCHANGED ShmRest
    \/ \E p \in ShmProcs : \E f \in {"ok", "shmget", "shmat"} :
          shm_call.tick < MaxShmCalls /\ ShmAttach(p, f) /\ UNCHANGED ShmRest
    \/ \E p \in ShmProcs : \E msg \in ShmMsgs :
          shm_call.tick < MaxShmCalls /\ ShmWrite(p, msg) /\ UNCHANGED ShmRest
    \/ \E p \in ShmProcs :
          shm_call.tick < MaxShmCalls /\ ShmRead(p) /\ UNCHANGED ShmRest
    \/ \E p \in ShmProcs : \E f \in {"ok", "shmctl"} :
          shm_call.tick < MaxShmCalls /\ ShmDestroy(p, f) /\ UNCHANGED ShmRest

SpecShm == Init /\ [][NextShm]_vars

\* everything the lock with bounded waits leaves alone
TimedRest == <<coordVars, cmdVars, threadVars, chanVars, loopVars, shmVars, segVars, jsonVars,
              signalVars>>

\* the processes attached to one segment under the second copy of the manager
NextTimed ==
    \/ \E p \in Procs : TimedCall(p, "lockForWrite") /\ UNCHANGED TimedRest
    \/ \E p \in Procs : TimedCall(p, "lockForRead") /\ UNCHANGED TimedRest
    \/ \E p \in Procs : TimedGoesOn(p) /\ UNCHANGED TimedRest
    \/ \E p \in Procs : TimedLockForWrite(p, TRUE) /\ UNCHANGED TimedRest
    \/ \E p \in Procs : TimedLockForRead(p, TRUE) /\ UNCHANGED TimedRest
    \/ \E p \in Procs : TimedUnlockCall(p) /\ UNCHANGED TimedRest
    \/ \E p \in Procs : TimedUnlock(p, TRUE) /\ UNCHANGED TimedRest

SpecTimed == Init /\ [][NextTimed]_vars

\* a step of process p inside a call under the second copy, a timeout included, as a
\* whole step of the system
TimedReturns(p) ==
    /\ \E timeout \in BOOLEAN :
          TimedLockForWrite(p, timeout) \/ TimedLockForRead(p, timeout)
              \/ TimedUnlock(p, timeout)
    /\ UNCHANGED TimedRest

\* every process is scheduled: a wait completes or its timeout runs out
SpecTimedFair == SpecTimed /\ \A p \in Procs : WF_vars(TimedReturns(p))

\* the same processes when no wait runs into its timeout, any of which may exit
\* abnormally while it holds something
NextCrash ==
    \/ \E p \in Procs : TimedCall(p, "lockForWrite") /\ UNCHANGED TimedRest
    \/ \E p \in Procs : TimedCall(p, "lockForRead") /\ UNCHANGED TimedRest
    \/ \E p \in Procs : TimedGoesOn(p) /\ UNCHANGED TimedRest
    \/ \E p \in Procs : TimedUnlockCall(p) /\ UNCHANGED TimedRest
    \/ \E p \in Procs : CrashUndo(p) /\ UNCHANGED TimedRest

SpecCrash == Init /\ [][NextCrash]_vars

\* the processes of SpecLock, any of which may exit abnormally while it holds something
NextLockCrash ==
    \/ NextLock
    \/ \E p \in Procs :
          CrashPlain(p) /\ UNCHANGED coordVars
                        /\ UNCHANGED <<cmdVars, threadVars, chanVars, dataVars>>

SpecLockCrash == Init /\ [][NextLockCrash]_vars

\* an IPCCommand object on which fromJSON is called with one text after another
JsonRest == <<coordVars, lockVars, cmdVars, threadVars, chanVars, loopVars, shmVars,
              segVars, timedVars, signalVars>>

NextJson == \E json \in JsonTexts : FromJSONCall(json) /\ UNCHANGED JsonRest

SpecJson == Init /\ [][NextJson]_vars

\* the main thread initializes, starts mechanisms and shuts down while SIGINT / SIGTERM
\* may be delivered to it
SignalRest == <<cmdVars, threadVars, chanVars, loopVars, shmVars, segVars, timedVars,
                jsonVars>>

NextSignal ==
    \/ SignalInitialize /\ UNCHANGED SignalRest
    \/ \E m \in Mechanisms : \E f \in Outcomes(m) :
          /\ TotalLogged < MaxEvents /\ SignalStart(m, f)
          /\ UNCHANGED SignalRest
    \/ TotalLogged < MaxEvents /\ SignalShutdownCall /\ UNCHANGED SignalRest
    \/ TotalLogged < MaxEvents /\ signalHandler /\ UNCHANGED SignalRest
    \/ SignalReturn /\ UNCHANGED SignalRest
    \/ ShutdownStop /\ UNCHANGED <<SignalRest, signalVars>>
    \/ ShutdownFinish /\ UNCHANGED <<SignalRest, signalVars>>
    \/ StopReturn /\ UNCHANGED <<SignalRest, signalVars>>
    \/ \E c \in DOMAIN procs : ChildExit(c) /\ UNCHANGED <<SignalRest, signalVars>>

SpecSignal == Init /\ [][NextSignal]_vars

\* processes that lock and unlock, and beside them one that only calls unlock
NextBystander ==
    \/ \E p \in Procs \ {Bystander} :
          /\ pc[p] \in {"idle", "cs_read", "cs_write"} => WithinRange
          /\ LockStep(p) /\ UNCHANGED coordVars
          /\ UNCHANGED <<cmdVars, threadVars, chanVars, dataVars>>
    \/ BystanderUnlockCall /\ UNCHANGED coordVars
                           /\ UNCHANGED <<cmdVars, threadVars, chanVars, dataVars>>
    \/ UnlockGoesOn(Bystander) /\ UNCHANGED coordVars
                               /\ UNCHANGED <<cmdVars, threadVars, chanVars, dataVars>>

SpecBystander == Init /\ [][NextBystander]_vars

SpecCmd == Init /\ [][NextCmd]_vars

\* the responders keep running and a waitpid whose child has exited returns; the caller
\* goes on from restart's stop to its start
SpecCmdFair ==
    /\ SpecCmd
    /\ WF_vars(ResponderExits)
    /\ WF_vars(CommandWaitReturns)
    /\ WF_vars(RestartGoesOn)

SpecLog == Init /\ [][NextLog]_vars

Spec == SpecCoord

-----------------------------------------------------------------------------
(* Claims about the readers-writers protocol *)

\* processes that completed lockForRead and have not yet given their count back
ReadHolders == {p \in Procs : pc[p] \in {"cs_read", "u_wait_mutex", "u_count"}}

\* C1: the segment's is_writing flag and reader_count > 0 are never both true,
\* also not while a reader that incremented reader_count waits on the write semaphore
C1_FlagExcludesCount == ~(is_writing /\ reader_count > 0)

\* C2: no process is between a successful lockForWrite and its unlock while another
\* process is between a successful lockForRead or lockForWrite and its unlock
C2_MutualExclusion ==
    \A p, q \in Procs :
        (p # q /\ pc[p] = "cs_write") => pc[q] \notin {"cs_read", "cs_write"}

\* a writer is inside its critical section while a reader and a writer wait for it
C2_Witness ==
    \E p, q, r \in Procs :
        /\ pc[p] = "cs_write"
        /\ pc[q] = "r_wait_write"
        /\ pc[r] = "w_wait_write"

\* C3: a writer waiting in lockForWrite is not admitted while a reader still holds the
\* read lock; it stays blocked after the first reader's unlock, and the reader path of
\* unlock signals the write semaphore only when reader_count has reached zero
C3_WriterWaitsForAllReaders ==
    [][ /\ \A w \in Procs :
              (pc[w] = "w_wait_write" /\ pc'[w] = "w_set_flag") => ReadHolders = {}
        /\ \A p \in Procs :
              (pc[p] = "u_signal_write_r" /\ pc'[p] # pc[p]) => reader_count = 0 ]_vars

\* two readers held the lock, one of them has given its count back and the other still
\* reads, and the writer is still blocked on the write semaphore
C3_Witness ==
    \E w, r1, r2 \in Procs :
        /\ pc[w] = "w_wait_write"
        /\ pc[r1] = "cs_read"
        /\ pc[r2] = "u_signal_mutex"
        /\ reader_count = 1
        /\ sem[SEM_WRITE] = 0

-----------------------------------------------------------------------------
(* Claims about the coordinator *)

\* the step is the return of a call of operation op
CallReturned(op) == last_call'.tick # last_call.tick /\ last_call'.op = op

C5_StopReturnsSuccess ==
    \A m \in Mechanisms :
        (coord_pc.op = "stop_wait" /\ coord_pc.mech = m) =>
            \/ ENABLED StopReturn
            \/ /\ manager_[m].child_pid_ \in DOMAIN procs
               /\ ENABLED ChildExit(manager_[m].child_pid_)

\* C5, the part that holds: whenever stopMechanism(m) does return it returns true and
\* leaves m inactive; a stop right after a stop of the same mechanism gives the same
\* result and changes neither flags, managers nor processes; for a mechanism never
\* started no signal is sent
StopIsIdempotentWhenItReturns ==
    [][ \A m \in Mechanisms :
          (CallReturned("stop") /\ last_call'.mech = m) =>
              /\ last_call'.result
              /\ ~mechanism_status_'[m]
              /\ ~ManagerActive(m)'
              /\ (m \notin ever_started) => (~last_call'.signalled /\ procs' = procs)
              /\ (last_call.op = "stop" /\ last_call.mech = m) =>
                    /\ last_call'.result = last_call.result
                    /\ mechanism_status_' = mechanism_status_
                    /\ manager_' = manager_
                    /\ procs' = procs ]_vars

\* C6: sendMessage on a mechanism whose flag is false returns false, writes to no
\* channel and leaves every counter and log as it was
C6_InactiveSendRejected ==
    [][ \A m \in Mechanisms :
          (CallReturned("send") /\ last_call'.mech = m /\ ~mechanism_status_[m]) =>
              /\ ~last_call'.result
              /\ ~last_call'.wrote
              /\ message_counts_' = message_counts_
              /\ mechanism_logs_' = mechanism_logs_ ]_vars

\* a send to a mechanism that was started, used and stopped has been rejected
C6_Witness ==
    \E m \in Mechanisms :
        /\ last_call.op = "send" /\ last_call.mech = m
        /\ ~last_call.result /\ ~last_call.wrote
        /\ ~mechanism_status_[m]
        /\ m \in ever_started
        /\ message_counts_[m] > 0

\* C7: the messages_sent reported for m is the number of sendMessage(m, .) calls that
\* returned true since construction, whatever starts, stops and failed sends happened
C7_SentCounter ==
    \A m \in Mechanisms :
        /\ message_counts_[m] = ok_sends[m]
        /\ getMechanismStatus(m).messages_sent = ok_sends[m]

\* two sends succeeded on a mechanism that has then been stopped
C7_Witness ==
    \E m \in Mechanisms :
        /\ ok_sends[m] = 2
        /\ last_call.op = "stop" /\ last_call.mech = m

Min(a, b) == IF a < b THEN a ELSE b

\* the counts getLogs is asked for
LogCounts == {0, 1, 100, MaxLogEntries, MaxLogEntries + 1}

C9_FailedStart ==
    [][ \A m \in Mechanisms :
          (CallReturned("start") /\ last_call'.mech = m /\ ~last_call'.result) =>
              /\ ~mechanism_status_'[m]
              /\ mechanism_status_' = mechanism_status_
              /\ mechanism_logs_' = mechanism_logs_
              /\ message_counts_' = message_counts_
              /\ \A o \in Mechanisms \ {m} : manager_'[o] = manager_[o]
              /\ procs' = procs
              /\ open_fds' = open_fds ]_vars

\* the create routine of a mechanism ran and failed while another mechanism is active
C9_Witness ==
    /\ last_call.op = "start" /\ ~last_call.result /\ last_call.created
    /\ \E o \in Mechanisms \ {last_call.mech} : mechanism_status_[o]

\* C10: every stopMechanism call that waits for its responder eventually gets past the
\* wait, whatever the order in which the mechanisms were started (and so does shutdown)
C10_StopCompletes == (coord_pc.op = "stop_wait") ~> (coord_pc.op # "stop_wait")

\* C11: when an active pipe or socket mechanism with a living responder is stopped, a
\* cooperative termination request is sent to the responder after the flag was cleared
\* (and a forced one only after it): the stop that waited for the responder reports a
\* signal sent
C11_TerminationRequested ==
    [][ (CallReturned("stop") /\ coord_pc.op = "stop_wait") =>
            (~mechanism_status_[coord_pc.mech] /\ last_call'.signalled) ]_vars

\* C12: when shutdown() returns from a running coordinator, isRunning() is false, every
\* flag is false and no responder is alive; shutdown() of a coordinator that is not
\* running changes nothing
C12_ShutdownLeavesNothing ==
    [][ /\ (CallReturned("shutdown") /\ is_running_) =>
              /\ ~is_running_'
              /\ \A m \in Mechanisms : ~mechanism_status_'[m]
              /\ \A c \in DOMAIN procs' : ~procs'[c].alive
        /\ (CallReturned("shutdown") /\ ~is_running_) =>
              UNCHANGED <<is_running_, manager_, mechanism_status_, mechanism_pids_,
                          message_counts_, mechanism_logs_, coord_pc, procs, next_pid,
                          open_fds, kernel_shm, kernel_sem, logged, ok_sends>> ]_vars

\* shutdown() has returned after both channel mechanisms were active and were stopped
\* by it
C12_Witness ==
    /\ last_call.op = "shutdown"
    /\ ~is_running_
    /\ logged["pipes"] = 2 /\ logged["sockets"] = 2
    /\ \A m \in Mechanisms : mechanism_logs_[m] = <<>>

\* C17: whenever a pipe or socket mechanism is active and its responder is alive,
\* getMechanismStatus(m) reports the responder's process identifier and is_running
C17_StatusReflectsResponder ==
    \A m \in Channels :
        LET c == manager_[m].child_pid_ IN
        (mechanism_status_[m] /\ ManagerActive(m) /\ c \in DOMAIN procs /\ procs[c].alive) =>
            /\ getMechanismStatus(m).process_pid = c
            /\ getMechanismStatus(m).is_running

\* C18: total_processes of getFullStatus() is at least the number of mechanisms that
\* were started and not yet stopped
C18_TotalProcesses ==
    getFullStatus.total_processes >= Cardinality({m \in Mechanisms : mechanism_status_[m]})

\* the step is the return of restartMechanism / executeCommand with the given action
Responded(action) == response'.tick # response.tick /\ response'.action = action

\* C13: restartMechanism(m) on an initialized coordinator, with no resource refused by
\* the kernel during the restart, returns true and leaves m active with an active
\* manager, whether m was active or inactive before
C13_RestartSucceeds ==
    [][ \A m \in Mechanisms :
          (Responded("restart") /\ response'.mech = m /\ ~response'.limit
              /\ manager_[m].present) =>
                /\ response'.status = "success"
                /\ mechanism_status_'[m]
                /\ ManagerActive(m)' ]_vars

\* C14: executeCommand always returns a response: a stop command that waits for the
\* responder eventually gets its response
C14_CommandReturns == (cmd.action = "stop") ~> (cmd.action = "none")

\* C14, the part that holds: a start/stop/send response says success exactly when the
\* operation returned true, and an unknown action gets an error response and changes
\* no coordinator state
CommandResponsesMatch ==
    [][ /\ \A a \in {"start", "stop", "send"} :
              Responded(a) => (response'.status = "success" <=> last_call'.result)
        /\ (response'.tick # response.tick /\ response'.action \notin KnownActions
                /\ response'.action # "restart") =>
              /\ response'.status = "error"
              /\ response'.message = "unknown command"
              /\ UNCHANGED coordVars ]_vars

\* "started" entries in the log of m
StartedEntries(m) ==
    {i \in 1..Len(mechanism_logs_[m]) : mechanism_logs_[m][i].activity = "started"}

\* responders forked for m
Responders(m) == {c \in DOMAIN procs : procs[c].mech = m}

\* C15: with concurrent callers of startMechanism(m) and no stop, the create routine
\* runs once per mechanism: there is at most one responder and one "started" entry
C15_StartIsAtomic ==
    \A m \in Mechanisms :
        /\ Cardinality(StartedEntries(m)) <= 1
        /\ Cardinality(Responders(m)) <= 1

\* C16: once all concurrent sendMessage calls have returned, messages_sent(m) has grown
\* by the number of calls that returned true, and there is one "message_sent" entry for
\* each
C16_NoLostUpdate ==
    (\A t \in Threads : thr[t].pc = "idle") =>
        \A m \in Mechanisms :
            /\ message_counts_[m] = ok_sends[m]
            /\ Cardinality({i \in 1..Len(mechanism_logs_[m]) :
                              mechanism_logs_[m][i].activity = "message_sent"}) = ok_sends[m]

\* the step is a send on the channel
SendStep == chan_call'.op = "send" /\ chan_call'.tick # chan_call.tick

\* the channel was never created, has been closed, or the caller is the responder image
NotUsable == chan.phase \in {"constructed", "closed"} \/ chan.image = "responder"

C21_RoundTrip ==
    (wire.sent /\ Unread(wire) = 0) => records = <<[from |-> 0, n |-> wire.len]>>

\* the step is a call of op on a manager
ShmStep(op) == shm_call'.op = op /\ shm_call'.tick # shm_call.tick

\* C22: a readMessage that immediately follows an accepted writeMessage of the same
\* process returns exactly the message written, and the write's operation record has
\* status "success" and the message as content
C22_SegmentRoundTrip ==
    [][/\ (ShmStep("write") /\ shm_call'.ok) =>
              (shm_call'.status = "success" /\ shm_call'.content = shm_call'.msg)
       /\ (shm_call.op = "write" /\ shm_call.ok /\ ShmStep("read")
           /\ shm_call'.proc = shm_call.proc) =>
              (shm_call'.ok /\ shm_call'.content = shm_call.msg)]_vars

\* the round trip of the messages that fit the buffer
SegmentRoundTripWithinBuffer ==
    [][(shm_call.op = "write" /\ shm_call.ok /\ ShmStep("read")
        /\ shm_call'.proc = shm_call.proc /\ shm_call.msg.len < SHM_DATA_SIZE) =>
           (shm_call'.ok /\ shm_call'.content = shm_call.msg)]_vars

\* the step is a writeMessage or a readMessage
ShmAccess == ShmStep("write") \/ ShmStep("read")

\* C24: on a manager that is not attached writeMessage returns false and readMessage
\* the empty string, no semaphore operation is made, the segment is not touched, and
\* the operation record has status "error" (not attached)
C24_NotAttached ==
    [][(ShmAccess /\ ~shm_mgr[shm_call'.proc].is_attached_) =>
          /\ ~shm_call'.ok
          /\ shm_call'.content = EmptyMsg
          /\ shm_call'.semops = 0
          /\ ~shm_call'.touched
          /\ seg_data' = seg_data
          /\ shm_call'.status = "error"
          /\ shm_call'.error = "not_attached"]_vars

\* a write was refused on a manager that had destroyed its segment while the segment
\* of the key exists again
C24_Witness ==
    /\ shm_call.op = "write"
    /\ shm_call.error = "not_attached"
    /\ shm_mgr[shm_call.proc].is_creator_
    /\ kernel_shm

\* C25: after attachToMemory succeeded in a process that did not create the segment,
\* its writeMessage and readMessage succeed while the creator's semaphore set exists
C25_AttachedProcessCanLock ==
    [][(ShmAccess /\ ShmUsable(shm_mgr[shm_call'.proc])
        /\ ~shm_mgr[shm_call'.proc].is_creator_ /\ kernel_sem) => shm_call'.ok]_vars

\* C26: destroySharedMemory leaves the manager inactive; in an active creator it removes
\* the segment and the semaphore set; in a non-creator, or called again, it removes
\* nothing
C26_DestroyByCreatorOnly ==
    [][ShmStep("destroy") =>
          /\ ~ShmUsable(shm_mgr'[shm_call'.proc])
          /\ (shm_mgr[shm_call'.proc].is_creator_ /\ ShmUsable(shm_mgr[shm_call'.proc]))
                => (~kernel_shm' /\ ~kernel_sem')
          /\ (~shm_mgr[shm_call'.proc].is_creator_ \/ ~ShmUsable(shm_mgr[shm_call'.proc]))
                => UNCHANGED <<kernel_shm, kernel_sem>>]_vars

\* destroySharedMemory when shmctl is not refused and the creator holds its segment id
DestroyWhenIdHeld ==
    [][(ShmStep("destroy") /\ shm_call'.ok) =>
          /\ ~ShmUsable(shm_mgr'[shm_call'.proc])
          /\ (shm_mgr[shm_call'.proc].is_creator_ /\ shm_mgr[shm_call'.proc].shmid_ # -1)
                => ~kernel_shm'
          /\ ~shm_mgr[shm_call'.proc].is_creator_
                => UNCHANGED <<kernel_shm, kernel_sem>>]_vars

\* C23: a readMessage running beside other readers and writers copies the whole text
\* of the last write that was complete when it got the read lock, and two writers are
\* never inside their buffer copies at once
C23_ReadsLastCommitted ==
    /\ \A p \in Procs :
          (rw[p].op = "read" /\ rw[p].step = "done") =>
              rw[p].got = <<rw[p].snap, rw[p].snap>>
    /\ Cardinality({p \in Procs : rw[p].op = "write" /\ rw[p].step = "half"}) <= 1

\* a reader has copied the second write while another process waits to write or read
C23_Witness ==
    \E p \in Procs :
        /\ rw[p].op = "read" /\ rw[p].step = "done"
        /\ rw[p].got = <<MaxWrites, MaxWrites>>
        /\ \E q \in Procs \ {p} : pc[q] \in {"w_wait_write", "r_wait_mutex", "cs_read"}


\* the positions of a process inside lockForRead or lockForWrite
InLockCall(p) ==
    pc[p] \in {"w_wait_write", "w_set_flag", "r_wait_mutex", "r_count", "r_wait_write",
               "r_signal_mutex"}

\* C27: no lock acquisition blocks forever: a lockForRead or lockForWrite that has been
\* called returns, with failure if its semaphore does not become available (the holder
\* never releases)
C27_LockCallReturns == \A p \in Procs : InLockCall(p) ~> ~InLockCall(p)

\* under the second copy of the manager every lockForRead and lockForWrite returns:
\* holds under SpecTimedFair
TimedLockCallReturns ==
    \A p \in Procs :
        (InLockCall(p) \/ pc[p] \in {"rc_wait_mutex", "rc_count", "rc_signal_mutex"})
            ~> (pc[p] \in {"idle", "cs_read", "cs_write"})

WriterGetsLock == \A p \in Procs : (pc[p] = "w_wait_write") ~> (pc[p] = "cs_write")



\* C28: a lockForRead or lockForWrite that failed because a wait timed out has left
\* nothing behind: the caller's net change of reader_count is zero and it holds of
\* readerMutex and writeLock what it held before the call
C28_TimeoutRecoverable ==
    \A p \in Procs :
        ret[p].res = "timeout" => (ret[p].cnt = 0 /\ semadj[p] = ret[p].adj0)

\* when no process is inside a call or holds a lock, a lock call can succeed: fails
\* under SpecTimed, where a timed-out first reader keeps the reader mutex
RetryCanSucceed ==
    (\A p \in Procs : pc[p] = "idle") => (CanWait(SEM_READER_MUTEX) /\ CanWait(SEM_WRITE))

\* the surviving processes exclude each other: a writer shares the segment with no one
SurvivorsExcluded ==
    \A p \in Procs : pc[p] = "cs_write" =>
        \A q \in Procs \ {p} : pc[q] \notin {"cs_write", "cs_read"}

\* after an abnormal exit, when no survivor is inside a call or holds a lock, both
\* semaphores are available, without which no later lock call succeeds
SurvivorsCanLock ==
    (/\ \E p \in Procs : pc[p] = "dead"
     /\ \A p \in Procs : pc[p] \in {"idle", "dead"})
        => (CanWait(SEM_READER_MUTEX) /\ CanWait(SEM_WRITE))

\* C29: a process that exits abnormally while it holds the read lock, the write lock or
\* readerMutex does not wedge the segment: the survivors' lock calls can still succeed
\* and the survivors still exclude each other
C29_CrashedHolderHarmless == SurvivorsExcluded /\ SurvivorsCanLock


-----------------------------------------------------------------------------
(* Claims about command validation *)

\* C31: fromJSON returns false for a start or stop command that names no valid mechanism
\* and for a send command that lacks a valid mechanism or has an empty message; a
\* command it accepts carries an action among start, stop, send, status and logs and,
\* for start, stop and send, the mechanism the caller named
C31_CommandValidated ==
    ipc_command.called =>
        LET json == ipc_command.json
            needs == json.action \in {"start", "stop", "send"}
        IN  /\ (needs /\ json.mechanism \notin Mechanisms) => ~ipc_command.result
            /\ (json.action = "send" /\ json.message = "") => ~ipc_command.result
            /\ ipc_command.result =>
                  /\ ipc_command.action \in {"start", "stop", "send", "status", "logs"}
                  /\ needs => ipc_command.mechanism = json.mechanism

\* what holds of the code: an absent or empty mechanism is rejected, and an accepted
\* command carries the action of the text
CommandValidatedWhenMechanismEmpty ==
    ipc_command.called =>
        LET json == ipc_command.json
            needs == json.action \in {"start", "stop", "send"}
        IN  /\ (needs /\ json.mechanism = "") => ~ipc_command.result
            /\ (json.action = "send" /\ json.message = "") => ~ipc_command.result
            /\ ipc_command.result =>
                  /\ ipc_command.action = json.action
                  /\ ipc_command.action \in {"start", "stop", "send", "status", "logs"}


-----------------------------------------------------------------------------
(* Further claims about the readers-writers protocol *)

\* positions at which a process holds the reader mutex and has no wait before it gives
\* the mutex back
MutexSection == {"r_count", "r_signal_mutex", "u_count", "u_signal_write_r", "u_signal_mutex"}

-----------------------------------------------------------------------------
(* Further claims about the coordinator *)

C34_DescriptorIsolation ==
    \A m \in Channels :
        (ManagerActive(m) /\ manager_[m].fd_w \in open_fds) =>
            \A h \in DOMAIN procs : procs[h].alive => manager_[m].fd_w \notin procs[h].holds

\* the living responders of channel mechanism m
LivingResponders(m) == {h \in DOMAIN procs : procs[h].mech = m /\ procs[h].alive}

C36_TeardownOnce == shutdown_entry.entries <= 1

\* (supporting) a shutdown() called after the teardown has finished does return at its
\* guard: between two calls of initialize() no teardown body is entered while the
\* coordinator is stopped
ShutdownAfterShutdown ==
    [][(~is_running_ /\ ~is_running_') =>
          shutdown_entry'.entries = shutdown_entry.entries]_vars

\* C37: readerMutex and writeLock are binary semaphores: from creation on their value is
\* 0 or 1 in every reachable state, whatever the interleaving of lockForRead,
\* lockForWrite, unlock and process exits with their semaphore undo (so writeLock is
\* never signalled, or adjusted upwards, while it is 1)
C37_BinarySemaphores ==
    /\ sem[SEM_READER_MUTEX] \in {0, 1}
    /\ sem[SEM_WRITE] \in {0, 1}

\* (supporting) no single step raises writeLock while it is 1
WriteLockRaisedFromZero ==
    [][sem'[SEM_WRITE] > sem[SEM_WRITE] => sem[SEM_WRITE] = 0]_vars

\* process p is inside a semaphoreWait whose semaphore is zero
Blocked(p) ==
    \/ pc[p] \in {"w_wait_write", "r_wait_write"} /\ ~CanWait(SEM_WRITE)
    \/ pc[p] \in {"r_wait_mutex", "u_wait_mutex"} /\ ~CanWait(SEM_READER_MUTEX)

\* process p is inside lockForRead
InLockForRead(p) == pc[p] \in {"r_wait_mutex", "r_count", "r_wait_write", "r_signal_mutex"}

\* C38: no process exits and every holder calls unlock in the end: in no reachable state
\* is every process blocked on a semaphore, and under fair scheduling every lockForRead
\* that was called returns with the read lock
C38_DeadlockFree ==
    /\ [](\E p \in Procs : ~Blocked(p))
    /\ \A p \in Procs : InLockForRead(p) ~> (pc[p] = "cs_read")

\* a first reader is blocked on writeLock behind a writer, holding readerMutex, and a
\* second reader is blocked on readerMutex behind it
C38_Witness ==
    \E w \in Procs : \E p \in Procs \ {w} : \E q \in Procs \ {w, p} :
        /\ pc[w] = "cs_write"
        /\ pc[p] = "r_wait_write" /\ Blocked(p)
        /\ pc[q] = "r_wait_mutex" /\ Blocked(q)

\* C39: unlock() releases only the caller's own lock: no step of an unlock() called by a
\* process that holds neither the read lock nor the write lock changes reader_count,
\* is_writing or the value of writeLock
C39_UnlockOwnLockOnly ==
    [][pc'[Bystander] # pc[Bystander] =>
          /\ reader_count' = reader_count
          /\ is_writing' = is_writing
          /\ sem'[SEM_WRITE] = sem[SEM_WRITE]]_vars

\* (supporting) what the bystander's unlock() leads to: a writer and a reader, or two
\* writers, inside their critical sections together
BystanderKeepsExclusion ==
    \A p \in Procs : \A q \in Procs \ {p} :
        pc[p] = "cs_write" => pc[q] \notin {"cs_read", "cs_write"}

\* C40: a createSharedMemory that returns false leaves nothing behind: the manager, not
\* active before the call, is not active after it, and no segment or semaphore set
\* allocated by the failed call remains in the kernel (so that a later create of the same
\* process for the same key can succeed)
C40_FailedCreateLeavesNothing ==
    [][(ShmStep("create") /\ ~shm_call'.ok) =>
          /\ ~isActive(shm_mgr[shm_call'.proc], "shared_memory")
                => ~isActive(shm_mgr'[shm_call'.proc], "shared_memory")
          /\ kernel_shm' = kernel_shm
          /\ kernel_sem' = kernel_sem]_vars

\* (supporting) a create refused by shmget itself does leave nothing behind
RefusedCreateLeavesNothing ==
    [][(ShmStep("create") /\ ~shm_call'.ok /\ shm_call'.error = "shmget") =>
          /\ ~isActive(shm_mgr[shm_call'.proc], "shared_memory")
                => ~isActive(shm_mgr'[shm_call'.proc], "shared_memory")
          /\ kernel_shm' = kernel_shm
          /\ kernel_sem' = kernel_sem]_vars

\* (supporting) after a create that failed in shmat or semget, a create by the same
\* process for the same key succeeds: fails, the segment of the failed call is in the way
RetriedCreateSucceeds ==
    [][(shm_call.op = "create" /\ ~shm_call.ok /\ shm_call.error \in {"shmat", "semget"}
        /\ ShmStep("create") /\ shm_call'.proc = shm_call.proc
        /\ shm_call'.error # "shmget") => shm_call'.ok]_vars

====
